---------------------------- MODULE Spec2Model ----------------------------
(***************************************************************************)
(* Model of the AI email sorter: the Gmail ingestion route                 *)
(* (POST /api/gmail/sync), the lib/ai classification engine and the bulk   *)
(* unsubscribe route (POST /api/emails/unsubscribe).                       *)
(*                                                                         *)
(* Every await of a handler that touches shared storage or the mailbox is  *)
(* one atomic step, so concurrent requests interleave at the same points   *)
(* as the single-threaded event loop allows.                               *)
(***************************************************************************)
EXTENDS Integers, Sequences, FiniteSets, TLC

(***************************************************************************)
(* Bounds of the model.                                                    *)
(***************************************************************************)
MaxMsgs == 2        \* distinct Gmail message ids per mailbox
MaxTicks == 1       \* clock readings, a day apart
MaxReplyLen == 2    \* characters of an LLM reply
MaxIds == 2         \* email ids of an unsubscribe request
MaxTextLen == 2     \* pieces of text of a section of a summarizer reply

(***************************************************************************)
(* Program constants.                                                      *)
(***************************************************************************)
PAGE_SIZE == 5      \* maxResults=5 of the Gmail listing
DefaultThreshold == 72                  \* 0.72, in hundredths
CACHE_TTL_MS == 1000 * 60 * 60 * 24     \* 24 hours
DayMs == 1000 * 60 * 60 * 24
BATCH_SIZE == 10    \* VERSION.FLAGS.MAX_BATCH_SIZE
MAX_RETRIES == 3    \* VERSION.FLAGS.RETRY_ATTEMPTS

Runs == {1, 2}      \* the sync requests: a first and a second one
Msgs == 1..MaxMsgs
Users == {"u1", "u2"}
Accounts == {"a1", "a2"}
None == "none"
NoId == 0

VARIABLES
    accounts,       \* google_accounts: id -> [user_id, token_expiry, last_sync_at]
    categories,     \* categories table, in row order: Seq([id, name, user_id])
    emails,         \* emails table: set of rows
    mailbox,        \* Gmail: account -> message ids carrying the INBOX label
    aiKey,          \* process.env: which AI key is configured
    run,            \* the sync requests: run id -> local state of the handler
    finished,       \* ghost: run ids in the order their responses were sent
    call,           \* lib/ai classifyEmail: local state of the call in progress
    cache,          \* lib/ai categoryEmbeddingCache: category id -> entry
    clock,          \* Date.now(), in days
    unsub,          \* the unsubscribe request: local state of the handler and its tasks
    attempts,       \* table unsubscribe_attempts: sequence of rows
    labels,         \* ghost: the label changes made to Gmail messages
    reqs,           \* the requests on one email: slot -> local state of the handler
    catReq,         \* the last DELETE /api/categories request and its answer
    llm,            \* lib/ai chooseCategoryWithLLM: a call, its inputs and its result
    summ            \* lib/ai summarizeEmail: a call, the model's reply and its result

syncVars == <<accounts, categories, emails, mailbox, run, finished>>
aiVars == <<call, cache, clock>>
unsubVars == <<unsub, attempts, labels>>
\* what the steps of one handler leave alone: the state of the other handlers
syncFrame == <<call, cache, clock, unsub, attempts, labels, reqs, catReq, llm, summ>>
aiFrame == <<accounts, categories, emails, mailbox, aiKey, run, finished, unsub, attempts, labels,
             reqs, catReq, llm, summ>>
unsubFrame == <<categories, mailbox, aiKey, run, finished, call, cache, clock, reqs, catReq,
               llm, summ>>
mailFrame == <<accounts, categories, mailbox, aiKey, run, finished, call, cache, clock,
               unsub, attempts, labels, catReq, llm, summ>>
catFrame == <<accounts, mailbox, aiKey, run, finished, call, cache, clock,
              unsub, attempts, labels, reqs, llm, summ>>
\* what a call of a function of lib/ai leaves alone
fnFrame == <<accounts, categories, emails, mailbox, aiKey, run, finished, call, cache, clock,
             unsub, attempts, labels, reqs, catReq>>
vars == <<accounts, categories, emails, mailbox, aiKey, run, finished, call, cache, clock,
          unsub, attempts, labels, reqs, catReq, llm, summ>>

(***************************************************************************)
(* Helpers on sequences.                                                   *)
(***************************************************************************)
Range(s) == {s[i] : i \in 1..Len(s)}

Take(s, n) == IF Len(s) <= n THEN s ELSE SubSeq(s, 1, n)

RECURSIVE SetToSeq(_)
SetToSeq(S) ==
    IF S = {} THEN <<>>
    ELSE LET m == CHOOSE x \in S : \A y \in S : x <= y
         IN <<m>> \o SetToSeq(S \ {m})

(***************************************************************************)
(* String.prototype.toLowerCase on the names that occur in the model.      *)
(***************************************************************************)
Lower(s) ==
    CASE s = "Inbox" -> "inbox"
      [] s = "INBOX" -> "inbox"
      [] s = "Work" -> "work"
      [] s = "WORK" -> "work"
      [] s = "Receipts" -> "receipts"
      [] OTHER -> s

Cat(id, name, user) == [id |-> id, name |-> name, user_id |-> user]

(***************************************************************************)
(* Headers of a Gmail message and the synthesized summary                  *)
(* `Email from ${from}: ${subject}`.                                       *)
(***************************************************************************)
SubjectOf(m) == <<"subject", m>>
FromOf(m) == <<"from", m>>
SynthSummary(from, subject) == <<"Email from ", from, ": ", subject>>
AISummary == <<"ai summary">>

(***************************************************************************)
(* Storage layer.                                                          *)
(***************************************************************************)
\* .from("emails").select("id").eq("gmail_message_id", id).single():
\* data is the row when exactly one row matches, null otherwise (also on a
\* storage error).  The filter names the message id only.
SelectExisting(rows, gid, dbOk) ==
    LET hit == {e \in rows : e.gmail_message_id = gid}
    IN dbOk /\ Cardinality(hit) = 1

\* UNIQUE(google_account_id, gmail_message_id) of the emails table.
UniqueViolation(rows, rec) ==
    \E e \in rows : /\ e.google_account_id = rec.google_account_id
                    /\ e.gmail_message_id = rec.gmail_message_id

\* Mutation: the table without its UNIQUE constraint.
InsertAllowed_NoUnique(rows, rec, dbOk) == dbOk

\* category_id UUID REFERENCES public.categories(id): NULL or an existing id
CategoryExists(id) ==
    id = NoId \/ \E i \in DOMAIN categories : categories[i].id = id

\* .from("emails").insert(rec): fails on a storage error, on the UNIQUE
\* constraint or on the foreign key of category_id.
InsertAllowed(rows, rec, dbOk) ==
    dbOk /\ ~UniqueViolation(rows, rec) /\ CategoryExists(rec.category_id)

\* UNIQUE(user_id, name) of the categories table.
CategoryInsertAllowed(rows, rec, dbOk) ==
    dbOk /\ ~\E k \in 1..Len(rows) : rows[k].user_id = rec.user_id /\ rows[k].name = rec.name

NextCategoryId == IF Len(categories) = 0 THEN 1
                  ELSE 1 + (CHOOSE n \in {categories[i].id : i \in 1..Len(categories)} :
                              \A k \in 1..Len(categories) : categories[k].id <= n)

(***************************************************************************)
(* The route's own classifyEmail (OpenRouter / OpenAI chat completion,     *)
(* JSON reply {category, summary}).                                        *)
(***************************************************************************)
ReplyNames == {"work", "Receipts", "Inbox", "Other"}

AIReplies ==
    [kind : {"throws", "http_error", "empty", "bad_json", "no_category"},
     category : {"Other"}, summary : {""}]
    \cup [kind : {"json"}, category : ReplyNames, summary : {"", "ai"}]

FindByName(cats, name) ==
    LET hits == SelectSeq(cats, LAMBDA c : Lower(c.name) = Lower(name))
    IN IF Len(hits) = 0 THEN NoId ELSE hits[1].id

\* Result of classifyEmail(subject, body, from, categories); calls is the
\* number of requests sent to the AI provider, cls tells how the category
\* was chosen, failed that the provider gave no usable answer.
RouteClassifyEmail(cats, from, subject, key, reply) ==
    LET synth == SynthSummary(from, subject)
        first == cats[1].id
    IN IF key = None
       THEN [categoryId |-> first, summary |-> synth, calls |-> 0, cls |-> "fallback",
             failed |-> FALSE]
       ELSE IF reply.kind # "json"
       THEN [categoryId |-> first, summary |-> synth, calls |-> 1, cls |-> "fallback",
             failed |-> TRUE]
       ELSE LET matched == FindByName(cats, reply.category)
            IN [categoryId |-> IF matched # NoId THEN matched ELSE first,
                summary |-> IF reply.summary # "" THEN AISummary ELSE synth,
                calls |-> 1,
                cls |-> IF matched # NoId THEN "matched" ELSE "fallback",
                failed |-> FALSE]

(***************************************************************************)
(* Environments: the inputs and the answers of the collaborators (request  *)
(* parameters, clock, storage, Gmail, AI provider) a handler may meet.     *)
(* FullEnv has every answer the code distinguishes.  RaceEnv is the        *)
(* environment of the two-request specification: well-formed requests,     *)
(* a storage that can still fail on the emails table, a Gmail whose        *)
(* archive call can fail.                                                  *)
(***************************************************************************)
FullEnv ==
    [requests |-> (Accounts \cup {None}) \X (Users \cup {None}),
     now |-> {1, 2},
     dbAccount |-> BOOLEAN, dbCategories |-> BOOLEAN, dbInbox |-> BOOLEAN,
     dbSelect |-> BOOLEAN, dbInsert |-> BOOLEAN, dbUpdate |-> BOOLEAN,
     list |-> {"ok", "not_ok", "throws"},
     fetch |-> {"ok", "bad_date", "not_ok", "throws"},
     replies |-> AIReplies,
     archive |-> {"ok", "not_ok", "throws"}]

RaceEnv ==
    [requests |-> {<<"a1", "u1">>, <<"a2", "u2">>},
     now |-> {1},
     dbAccount |-> {TRUE}, dbCategories |-> {TRUE}, dbInbox |-> {TRUE},
     dbSelect |-> BOOLEAN, dbInsert |-> BOOLEAN, dbUpdate |-> {TRUE},
     list |-> {"ok"},
     fetch |-> {"ok"},
     replies |-> {[kind |-> "empty", category |-> "Other", summary |-> ""]},
     archive |-> {"ok", "not_ok"}]

(***************************************************************************)
(* POST /api/gmail/sync                                                    *)
(***************************************************************************)
NoCur == [categoryId |-> NoId, summary |-> <<>>, cls |-> None, data |-> None, ai |-> 0,
          aiFailed |-> FALSE, archive |-> None]

IdleRun ==
    [pc |-> "idle", acct |-> None, user |-> None, status |-> 0, why |-> None,
     cats |-> <<>>, inboxId |-> NoId, classCats |-> <<>>,
     page |-> <<>>, i |-> 0, imported |-> 0, errors |-> <<>>,
     cur |-> NoCur,
     out |-> <<>>, aiCalls |-> 0, fetchCalls |-> {}, archiveCalls |-> {},
     createdInbox |-> FALSE, updatedSync |-> FALSE,
     began |-> 0, endKeys |-> {}]

Keys(rows) == {<<e.google_account_id, e.gmail_message_id>> : e \in rows}

\* NextResponse.json(...): the handler returns.
Respond(rec, status, why) ==
    [rec EXCEPT !.pc = "done", !.status = status, !.why = why]

\* lines 14-59: request parameters, session cookie, account lookup, token expiry.
SyncBegin(r, E) ==
    /\ run[r].pc = "idle"
    /\ \A q \in Runs : q < r => run[q].pc # "idle"
    /\ \E req \in E.requests, now \in E.now, dbOk \in E.dbAccount :
         LET accountId == req[1]
             userId == req[2]
             why == IF accountId = None THEN "no_account_id"
                    ELSE IF userId = None THEN "unauthorized"
                    ELSE IF ~dbOk \/ accounts[accountId].user_id # userId THEN "not_found"
                    ELSE IF accounts[accountId].token_expiry <= now THEN "token_expired"
                    ELSE "ok"
             status == CASE why = "no_account_id" -> 400
                         [] why = "unauthorized" -> 401
                         [] why = "not_found" -> 404
                         [] why = "token_expired" -> 401
                         [] OTHER -> 0
             rec == [run[r] EXCEPT !.acct = accountId, !.user = userId,
                                   !.began = Len(finished)]
         IN /\ run' = [run EXCEPT ![r] = IF why = "ok"
                                         THEN [rec EXCEPT !.pc = "categories"]
                                         ELSE Respond([rec EXCEPT !.endKeys = Keys(emails)],
                                                      status, why)]
            /\ finished' = IF why = "ok" THEN finished ELSE Append(finished, r)
    /\ UNCHANGED <<accounts, categories, emails, mailbox, aiKey>>
    /\ UNCHANGED syncFrame

\* lines 61-78: the user's categories; find the Inbox category.
SyncCategories(r, E) ==
    /\ run[r].pc = "categories"
    /\ \E dbOk \in E.dbCategories :
         IF ~dbOk
         THEN /\ run' = [run EXCEPT ![r] = Respond([@ EXCEPT !.endKeys = Keys(emails)],
                                                   500, "categories_error")]
              /\ finished' = Append(finished, r)
         ELSE LET cats == SelectSeq(categories, LAMBDA c : c.user_id = run[r].user)
                  inbox == FindByName(cats, "inbox")
              IN /\ run' = [run EXCEPT ![r] = [@ EXCEPT !.cats = cats, !.inboxId = inbox,
                                    !.pc = IF inbox = NoId THEN "inbox" ELSE "list"]]
                 /\ finished' = finished
    /\ UNCHANGED <<accounts, categories, emails, mailbox, aiKey>>
    /\ UNCHANGED syncFrame

\* lines 80-111: create the Inbox category when the user has none.
SyncCreateInbox(r, E) ==
    /\ run[r].pc = "inbox"
    /\ \E dbOk \in E.dbInbox :
         LET new == Cat(NextCategoryId, "Inbox", run[r].user)
         IN IF ~CategoryInsertAllowed(categories, new, dbOk)
            THEN /\ run' = [run EXCEPT ![r] = Respond([@ EXCEPT !.endKeys = Keys(emails)],
                                                      500, "inbox_error")]
                 /\ finished' = Append(finished, r)
                 /\ UNCHANGED categories
            ELSE /\ categories' = Append(categories, new)
                 /\ run' = [run EXCEPT ![r] = [@ EXCEPT !.inboxId = new.id,
                                    !.cats = Append(@, new),
                                    !.createdInbox = TRUE, !.pc = "list"]]
                 /\ finished' = finished
    /\ UNCHANGED <<accounts, emails, mailbox, aiKey>>
    /\ UNCHANGED syncFrame

\* Mutation: the Inbox category stays among the classification candidates.
ClassificationCategories_KeepInbox(allCategories) == allCategories

\* lines 113-116.
ClassificationCategories(allCategories) ==
    SelectSeq(allCategories, LAMBDA c : Lower(c.name) # "inbox")

\* lines 113-149: candidate categories, Gmail listing (maxResults=5, q=in:inbox).
SyncList(r, E) ==
    /\ run[r].pc = "list"
    /\ \E gmail \in E.list :
         LET rec == [run[r] EXCEPT !.classCats = ClassificationCategories(run[r].cats)]
             ended == [rec EXCEPT !.endKeys = Keys(emails)]
             messages == Take(SetToSeq(mailbox[run[r].acct]), PAGE_SIZE)
         IN CASE gmail = "not_ok" ->
                   /\ run' = [run EXCEPT ![r] = Respond(ended, 500, "gmail_error")]
                   /\ finished' = Append(finished, r)
              [] gmail = "throws" ->
                   /\ run' = [run EXCEPT ![r] = Respond(ended, 500, "sync_error")]
                   /\ finished' = Append(finished, r)
              [] OTHER ->
                   IF Len(messages) = 0
                   THEN /\ run' = [run EXCEPT ![r] = Respond(ended, 200, "empty")]
                        /\ finished' = Append(finished, r)
                   ELSE /\ run' = [run EXCEPT ![r] = [rec EXCEPT !.page = messages,
                                           !.i = 1, !.pc = "check"]]
                        /\ finished' = finished
    /\ UNCHANGED <<accounts, categories, emails, mailbox, aiKey>>
    /\ UNCHANGED syncFrame

\* End of one iteration of the for loop: the outcome is logged (ghost), the
\* error strings are pushed, the loop moves to the next message or ends.
EndMsg(rec, result, errs) ==
    [rec EXCEPT !.out = Append(@, [msg |-> rec.page[rec.i], result |-> result,
                                   errs |-> Len(errs), ai |-> rec.cur.ai,
                                   aiFailed |-> rec.cur.aiFailed,
                                   archive |-> rec.cur.archive]),
                !.errors = @ \o errs,
                !.cur = NoCur,
                !.i = @ + 1,
                !.pc = IF rec.i < Len(rec.page) THEN "check" ELSE "finish"]

Msg(r) == run[r].page[run[r].i]

\* lines 159-169: duplicate guard.
SyncCheck(r, E) ==
    /\ run[r].pc = "check"
    /\ \E dbOk \in E.dbSelect :
         run' = [run EXCEPT ![r] =
                   IF SelectExisting(emails, Msg(r), dbOk)
                   THEN EndMsg(@, "skipped", <<>>)
                   ELSE [@ EXCEPT !.pc = "fetch"]]
    /\ UNCHANGED <<accounts, categories, emails, mailbox, aiKey, finished>>
    /\ UNCHANGED syncFrame

\* lines 171-210: message details.  "bad_date" is a message whose Date
\* header does not parse: new Date(date).toISOString() throws at line 239.
SyncFetch(r, E) ==
    /\ run[r].pc = "fetch"
    /\ \E data \in E.fetch :
         LET rec == [run[r] EXCEPT !.cur.data = data, !.fetchCalls = @ \cup {Msg(r)}]
         IN run' = [run EXCEPT ![r] =
                      CASE data = "not_ok" ->
                             EndMsg(rec, "fetch_failed", <<<<"Failed to fetch email", Msg(r)>>>>)
                        [] data = "throws" ->
                             EndMsg(rec, "exception", <<<<"Error processing email", Msg(r)>>>>)
                        [] OTHER -> [rec EXCEPT !.pc = "classify"]]
    /\ UNCHANGED <<accounts, categories, emails, mailbox, aiKey, finished>>
    /\ UNCHANGED syncFrame

\* lines 212-244: classification, then the record is built.
SyncClassify(r, E) ==
    /\ run[r].pc = "classify"
    /\ \E reply \in E.replies :
         LET rec == run[r]
             from == FromOf(Msg(r))
             subject == SubjectOf(Msg(r))
             res == IF Len(rec.classCats) > 0
                    THEN RouteClassifyEmail(rec.classCats, from, subject, aiKey, reply)
                    ELSE [categoryId |-> rec.inboxId, summary |-> SynthSummary(from, subject),
                          calls |-> 0, cls |-> "no_candidates", failed |-> FALSE]
             classified == [rec EXCEPT !.cur.categoryId = res.categoryId,
                                       !.cur.summary = res.summary,
                                       !.cur.cls = res.cls,
                                       !.cur.ai = res.calls,
                                       !.cur.aiFailed = res.failed,
                                       !.aiCalls = @ + res.calls]
         IN run' = [run EXCEPT ![r] =
                      IF rec.cur.data = "bad_date"
                      THEN EndMsg(classified, "exception",
                                  <<<<"Error processing email", Msg(r)>>>>)
                      ELSE [classified EXCEPT !.pc = "insert"]]
    /\ UNCHANGED <<accounts, categories, emails, mailbox, aiKey, finished>>
    /\ UNCHANGED syncFrame

\* lines 233-244: the row; cls and by are ghosts (how the category was
\* chosen, which request wrote the row).
EmailRecord(r) ==
    [google_account_id |-> run[r].acct,
     gmail_message_id |-> Msg(r),
     category_id |-> run[r].cur.categoryId,
     summarized_text |-> run[r].cur.summary,
     cls |-> run[r].cur.cls,
     by |-> r]

\* Mutation: the `continue` after a failed insert is missing, so the loop
\* body goes on to the archive call and to imported++.
SyncInsert_NoContinue(r, E) ==
    /\ run[r].pc = "insert"
    /\ \E dbOk \in E.dbInsert :
         IF InsertAllowed(emails, EmailRecord(r), dbOk)
         THEN /\ emails' = emails \cup {EmailRecord(r)}
              /\ run' = [run EXCEPT ![r] = [@ EXCEPT !.pc = "archive"]]
         ELSE /\ emails' = emails
              /\ run' = [run EXCEPT ![r] =
                           [@ EXCEPT !.errors = Append(@, <<"Failed to import email", Msg(r)>>),
                                     !.pc = "archive"]]
    /\ UNCHANGED <<accounts, categories, mailbox, aiKey, finished>>
    /\ UNCHANGED syncFrame

\* lines 252-269: insert of the record.
SyncInsert(r, E) ==
    /\ run[r].pc = "insert"
    /\ \E dbOk \in E.dbInsert :
         IF InsertAllowed(emails, EmailRecord(r), dbOk)
         THEN /\ emails' = emails \cup {EmailRecord(r)}
              /\ run' = [run EXCEPT ![r] = [@ EXCEPT !.pc = "archive"]]
         ELSE /\ emails' = emails
              /\ run' = [run EXCEPT ![r] =
                           EndMsg(@, "insert_failed", <<<<"Failed to import email", Msg(r)>>>>)]
    /\ UNCHANGED <<accounts, categories, mailbox, aiKey, finished>>
    /\ UNCHANGED syncFrame

\* Mutation: the archive call without its own try/catch, so that a throw
\* reaches the catch of the loop body.
SyncArchive_Uncaught(r, E) ==
    /\ run[r].pc = "archive"
    /\ \E gmail \in E.archive :
         /\ mailbox' = IF gmail = "ok"
                       THEN [mailbox EXCEPT ![run[r].acct] = @ \ {Msg(r)}]
                       ELSE mailbox
         /\ run' = [run EXCEPT ![r] =
                      IF gmail = "throws"
                      THEN EndMsg([@ EXCEPT !.archiveCalls = @ \cup {Msg(r)},
                                            !.cur.archive = gmail],
                                  "exception", <<<<"Error processing email", Msg(r)>>>>)
                      ELSE EndMsg([@ EXCEPT !.imported = @ + 1,
                                            !.archiveCalls = @ \cup {Msg(r)},
                                            !.cur.archive = gmail],
                                  "imported", <<>>)]
    /\ UNCHANGED <<accounts, categories, emails, aiKey, finished>>
    /\ UNCHANGED syncFrame

\* lines 271-292: archive in Gmail (the answer is not inspected), count;
\* cur.archive is a ghost, the answer of Gmail.
SyncArchive(r, E) ==
    /\ run[r].pc = "archive"
    /\ \E gmail \in E.archive :
         /\ mailbox' = IF gmail = "ok"
                       THEN [mailbox EXCEPT ![run[r].acct] = @ \ {Msg(r)}]
                       ELSE mailbox
         /\ run' = [run EXCEPT ![r] =
                      EndMsg([@ EXCEPT !.imported = @ + 1, !.archiveCalls = @ \cup {Msg(r)},
                                       !.cur.archive = gmail],
                             "imported", <<>>)]
    /\ UNCHANGED <<accounts, categories, emails, aiKey, finished>>
    /\ UNCHANGED syncFrame

\* lines 299-321: last_sync_at (the update's error is not inspected), response.
SyncFinish(r, E) ==
    /\ run[r].pc = "finish"
    /\ \E dbOk \in E.dbUpdate :
         /\ accounts' = IF dbOk
                        THEN [accounts EXCEPT ![run[r].acct].last_sync_at = r]
                        ELSE accounts
         /\ run' = [run EXCEPT ![r] =
                      Respond([@ EXCEPT !.updatedSync = dbOk, !.endKeys = Keys(emails)],
                              200, "completed")]
    /\ finished' = Append(finished, r)
    /\ UNCHANGED <<categories, emails, mailbox, aiKey>>
    /\ UNCHANGED syncFrame

Sync(r, E) ==
    \/ SyncBegin(r, E)
    \/ SyncCategories(r, E)
    \/ SyncCreateInbox(r, E)
    \/ SyncList(r, E)
    \/ SyncCheck(r, E)
    \/ SyncFetch(r, E)
    \/ SyncClassify(r, E)
    \/ SyncInsert(r, E)
    \/ SyncArchive(r, E)
    \/ SyncFinish(r, E)

(***************************************************************************)
(* lib/ai.ts: classifyEmail, one step per awaited provider request.        *)
(* Embeddings are integer vectors; a cosine similarity is kept as its      *)
(* signed square, the fraction sq / den in lowest terms, which orders as   *)
(* the similarity does; thresholds are in hundredths.                      *)
(***************************************************************************)
CatIds == {"c1", "c2"}

CategoryLists ==
    { <<>>, <<"c1">>, <<"c2">>, <<"c1", "c2">>, <<"c2", "c1">> }

Vectors == { <<1, 0, 0, 0>>, <<18, 16, 6, 3>>, <<0, 0>> }

Thresholds == { DefaultThreshold, DefaultThreshold + 1 }

PostJsonFailures == { "network", "timeout", "non_json", "http_error" }

Min(a, b) == IF a <= b THEN a ELSE b

RECURSIVE Dot(_, _, _)
Dot(a, b, n) == IF n = 0 THEN 0 ELSE a[n] * b[n] + Dot(a, b, n - 1)

SignedSq(x) == IF x >= 0 THEN x * x ELSE -(x * x)

Abs(x) == IF x >= 0 THEN x ELSE -x

RECURSIVE GCD(_, _)
GCD(a, b) == IF b = 0 THEN a ELSE GCD(b, a % b)

Fraction(sq, den) ==
    LET g == GCD(Abs(sq), den) IN [sq |-> sq \div g, den |-> den \div g]

CosineSimilarity(a, b) ==
    LET n == Min(Len(a), Len(b))
        dot == Dot(a, b, n)
        magA == Dot(a, a, n)
        magB == Dot(b, b, n)
    IN IF magA = 0 \/ magB = 0
       THEN Fraction(0, 1)
       ELSE Fraction(SignedSq(dot), magA * magB)

\* s1 >= s2 for two cosine similarities
ScoreGe(s1, s2) == s1.sq * s2.den >= s2.sq * s1.den

\* s >= t / 100
ScoreGeThreshold(s, t) == s.sq * 100 * 100 >= SignedSq(t) * s.den

ScoreGtThreshold(s, t) == s.sq * 100 * 100 > SignedSq(t) * s.den

\* scores.sort((a, b) => b.score - a.score): descending, stable
InsertDesc(x, s) ==
    LET k == Cardinality({i \in DOMAIN s : ScoreGe(s[i].score, x.score)})
    IN SubSeq(s, 1, k) \o <<x>> \o SubSeq(s, k + 1, Len(s))

RECURSIVE SortDesc(_)
SortDesc(s) ==
    IF s = <<>> THEN <<>>
    ELSE InsertDesc(s[Len(s)], SortDesc(SubSeq(s, 1, Len(s) - 1)))

TopCategory_Strict(sorted, threshold) ==
    IF ScoreGtThreshold(sorted[1].score, threshold) THEN sorted[1].id ELSE None

\* const categoryId = top.score >= threshold ? top.id : null
TopCategory(sorted, threshold) ==
    IF ScoreGeThreshold(sorted[1].score, threshold) THEN sorted[1].id ELSE None

(* The assistant's reply, as characters. *)
Digits == {"0", "1", "2"}
Whitespace == {"\n"}
Chars == Digits \cup Whitespace \cup {"x"}

Replies == UNION { [1..n -> Chars] : n \in 0..MaxReplyLen }

DigitValue(c) == CASE c = "0" -> 0 [] c = "1" -> 1 [] c = "2" -> 2

RECURSIVE TrimLeft(_)
TrimLeft(s) ==
    IF s # <<>> /\ Head(s) \in Whitespace THEN TrimLeft(Tail(s)) ELSE s

RECURSIVE TrimRight(_)
TrimRight(s) ==
    IF s # <<>> /\ s[Len(s)] \in Whitespace
    THEN TrimRight(SubSeq(s, 1, Len(s) - 1)) ELSE s

Trim(s) == TrimRight(TrimLeft(s))

\* the first element of s.split(/\r?\n/)
RECURSIVE FirstLine(_)
FirstLine(s) ==
    IF s = <<>> \/ Head(s) = "\n" THEN <<>> ELSE <<Head(s)>> \o FirstLine(Tail(s))

\* the group of /^(\d+)/, <<>> when there is no match
RECURSIVE LeadingDigits(_)
LeadingDigits(s) ==
    IF s # <<>> /\ Head(s) \in Digits
    THEN <<Head(s)>> \o LeadingDigits(Tail(s)) ELSE <<>>

\* the group of /(\d+)/, <<>> when there is no match
RECURSIVE AnyDigits(_)
AnyDigits(s) ==
    IF s = <<>> THEN <<>>
    ELSE IF Head(s) \in Digits THEN LeadingDigits(s) ELSE AnyDigits(Tail(s))

RECURSIVE ParseInt(_)
ParseInt(ds) ==
    IF ds = <<>> THEN 0
    ELSE 10 * ParseInt(SubSeq(ds, 1, Len(ds) - 1)) + DigitValue(ds[Len(ds)])

\* the parsing without its second look for an integer anywhere in the reply
ParseChoice_FirstLineOnly(assistant, cats) ==
    LET match == LeadingDigits(Trim(FirstLine(Trim(assistant))))
        idx == ParseInt(match)
    IN IF match = <<>> THEN None
       ELSE IF idx <= 0 \/ idx > Len(cats) THEN None
       ELSE cats[idx]

ParseChoice(assistant, cats) ==
    LET match == LeadingDigits(Trim(FirstLine(Trim(assistant))))
        anyNum == AnyDigits(assistant)
        idx == IF match = <<>> THEN ParseInt(anyNum) ELSE ParseInt(match)
    IN IF match = <<>> /\ anyNum = <<>> THEN None
       ELSE IF idx <= 0 \/ idx > Len(cats) THEN None
       ELSE cats[idx]

\* the answers of the chat endpoint: a failure of postJson, a payload with
\* no assistant text, or a reply
LLMAnswers ==
    [kind : PostJsonFailures, text : {<<>>}]
        \cup [kind : {"no_text"}, text : {<<>>}]
        \cup [kind : {"reply"}, text : Replies]

ChooseCategoryWithLLM(cats, key, answer) ==
    IF cats = <<>> THEN [threw |-> FALSE, categoryId |-> None, requests |-> 0]
    ELSE IF key = None THEN [threw |-> TRUE, categoryId |-> None, requests |-> 0]
    ELSE IF answer.kind \in PostJsonFailures
         THEN [threw |-> TRUE, categoryId |-> None, requests |-> 1]
    ELSE IF answer.kind = "no_text" \/ answer.text = <<>>
         THEN [threw |-> FALSE, categoryId |-> None, requests |-> 1]
    ELSE [threw |-> FALSE, categoryId |-> ParseChoice(answer.text, cats), requests |-> 1]

\* the answers of the embeddings endpoint: a failure of postJson, a payload
\* extractEmbedding finds no vector in, or a vector
EmbeddingAnswers ==
    [kind : PostJsonFailures \cup {"no_embedding"}, vector : {<<>>}]
        \cup [kind : {"vector"}, vector : Vectors]

GetEmbedding(key, answer) ==
    IF key = None THEN [threw |-> TRUE, embedding |-> <<>>, requests |-> 0]
    ELSE IF answer.kind # "vector" THEN [threw |-> TRUE, embedding |-> <<>>, requests |-> 1]
    ELSE [threw |-> FALSE, embedding |-> answer.vector, requests |-> 1]

NoEntry == [present |-> FALSE, embedding |-> <<>>, ts |-> 0]

Now == clock * DayMs

NoResult == [categoryId |-> None, method |-> "pending"]

IdleCall ==
    [pc |-> "idle", cats |-> <<>>, threshold |-> DefaultThreshold, emailEmb |-> <<>>,
     k |-> 0, scores |-> <<>>, result |-> NoResult,
     \* ghost fields
     scored |-> FALSE, caught |-> FALSE, threw |-> FALSE,
     llmInvoked |-> 0, llmRequests |-> 0, embedRequests |-> 0]

AIUnused ==
    /\ call = IdleCall
    /\ cache = [c \in CatIds |-> NoEntry]
    /\ clock = 0

Return(rec, categoryId, method) ==
    [rec EXCEPT !.pc = "done", !.result = [categoryId |-> categoryId, method |-> method]]

\* an exception inside the outer try block
Catch(rec) == [rec EXCEPT !.pc = "last_resort", !.caught = TRUE]

\* step 2 of the try block: the LLM after classifyByEmbeddings gave no category
InvokeLLM(rec) == [rec EXCEPT !.pc = "llm"]

\* classifyEmail begins; with no categories nothing is awaited on a provider
AIBegin ==
    /\ call.pc \in {"idle", "done"}
    /\ \E cats \in CategoryLists, t \in Thresholds :
         LET rec == [IdleCall EXCEPT !.cats = cats, !.threshold = t]
         IN call' = IF cats = <<>>
                    THEN Return([rec EXCEPT !.llmInvoked = 1], None, "none")
                    ELSE [rec EXCEPT !.pc = "embed_email"]
    /\ UNCHANGED <<cache, clock>>
    /\ UNCHANGED aiFrame

\* const emailEmb = await getEmbedding(emailText)
AIEmbedEmail ==
    /\ call.pc = "embed_email"
    /\ \E answer \in EmbeddingAnswers :
         LET g == GetEmbedding(aiKey, answer)
             rec == [call EXCEPT !.embedRequests = @ + g.requests]
         IN call' = IF g.threw THEN Catch(rec)
                    ELSE [rec EXCEPT !.emailEmb = g.embedding, !.k = 1, !.pc = "embed_category"]
    /\ UNCHANGED <<cache, clock>>
    /\ UNCHANGED aiFrame

\* what follows the loop: sort, take the top, compare it with the threshold
Scored(rec) ==
    LET sorted == SortDesc(rec.scores)
        categoryId == TopCategory(sorted, rec.threshold)
        done == [rec EXCEPT !.scores = sorted, !.scored = TRUE]
    IN IF categoryId # None THEN Return(done, categoryId, "embeddings")
       ELSE InvokeLLM(done)

PushScore(rec, c, catEmb) ==
    LET pushed == [rec EXCEPT !.scores = Append(@, [id |-> c, score |-> CosineSimilarity(rec.emailEmb, catEmb)]),
                              !.k = @ + 1]
    IN IF pushed.k > Len(pushed.cats) THEN Scored(pushed) ELSE pushed

\* Mutation: an entry that is exactly 24 hours old still counts as fresh.
CacheHit_Inclusive(cached, now) == cached.present /\ now - cached.ts <= CACHE_TTL_MS

\* if (cached && now - cached.ts < CACHE_TTL_MS)
CacheHit(cached, now) == cached.present /\ now - cached.ts < CACHE_TTL_MS

\* one turn of the loop: await getCategoryEmbedding(c.id, ...), score, push
AIEmbedCategory ==
    /\ call.pc = "embed_category"
    /\ LET c == call.cats[call.k]
           cached == cache[c]
       IN IF CacheHit(cached, Now)
          THEN /\ call' = PushScore(call, c, cached.embedding)
               /\ UNCHANGED cache
          ELSE \E answer \in EmbeddingAnswers :
                 LET g == GetEmbedding(aiKey, answer)
                     rec == [call EXCEPT !.embedRequests = @ + g.requests]
                 IN IF g.threw
                    THEN /\ call' = Catch(rec)
                         /\ UNCHANGED cache
                    ELSE /\ cache' = [cache EXCEPT ![c] = [present |-> TRUE, embedding |-> g.embedding, ts |-> Now]]
                         /\ call' = PushScore(rec, c, g.embedding)
    /\ UNCHANGED clock
    /\ UNCHANGED aiFrame

\* const llm = await chooseCategoryWithLLM(emailText, categories)
AIChooseLLM ==
    /\ call.pc = "llm"
    /\ \E answer \in LLMAnswers :
         LET l == ChooseCategoryWithLLM(call.cats, aiKey, answer)
             rec == [call EXCEPT !.llmInvoked = @ + 1, !.llmRequests = @ + l.requests]
         IN call' = IF l.threw THEN Catch(rec)
                    ELSE IF l.categoryId # None THEN Return(rec, l.categoryId, "llm")
                    ELSE Return(rec, None, "none")
    /\ UNCHANGED <<cache, clock>>
    /\ UNCHANGED aiFrame

LastResortThrew_Uncaught(rec) == [rec EXCEPT !.pc = "done", !.threw = TRUE]

\* catch (err2) { return { categoryId: null, method: 'none', ... } }
LastResortThrew(rec) == Return(rec, None, "none")

\* the catch block: the LLM as a last resort
AILastResort ==
    /\ call.pc = "last_resort"
    /\ \E answer \in LLMAnswers :
         LET l == ChooseCategoryWithLLM(call.cats, aiKey, answer)
             rec == [call EXCEPT !.llmInvoked = @ + 1, !.llmRequests = @ + l.requests]
         IN call' = IF l.threw THEN LastResortThrew(rec)
                    ELSE Return(rec, l.categoryId, "llm")
    /\ UNCHANGED <<cache, clock>>
    /\ UNCHANGED aiFrame

\* time passes
Tick ==
    /\ clock < MaxTicks
    /\ clock' = clock + 1
    /\ UNCHANGED <<call, cache>>
    /\ UNCHANGED aiFrame

(***************************************************************************)
(* Specification Spec: one sync request, every answer of the environment,  *)
(* from a storage that earlier requests have left: a few category sets of  *)
(* user u1, rows imported before, a full or an empty inbox.                *)
(***************************************************************************)
CatConfigs ==
    { <<>>,
      <<Cat(1, "INBOX", "u1")>>,
      <<Cat(1, "Work", "u1"), Cat(2, "Receipts", "u1")>>,
      <<Cat(1, "Work", "u1"), Cat(2, "Inbox", "u1"), Cat(3, "Receipts", "u1")>> }

PreRow(a, m) ==
    [google_account_id |-> a, gmail_message_id |-> m, category_id |-> 1,
     summarized_text |-> SynthSummary(FromOf(m), SubjectOf(m)), cls |-> "pre", by |-> 0]

InitAccounts ==
    [a \in Accounts |-> [user_id |-> IF a = "a1" THEN "u1" ELSE "u2",
                         token_expiry |-> 2, last_sync_at |-> 0]]

(***************************************************************************)
(* POST /api/emails/unsubscribe and unsubscribeEmail, one step per await.  *)
(* The emails of one account run as the tasks of a Promise.all.            *)
(***************************************************************************)
\* the primary key of an emails row, which the sync rows carry as their
\* unique pair
IdOf(e) == <<e.google_account_id, e.gmail_message_id>>

MissingId == <<"a1", NoId>>

UnsubRows == {PreRow("a1", 1), PreRow("a1", MaxMsgs), PreRow("a2", 1)}

EmailIds == {IdOf(e) : e \in UnsubRows} \cup {MissingId}

UnsubBodies ==
    [kind : {"bad_json", "not_array"}, ids : {<<>>}]
        \cup [kind : {"array"}, ids : UNION { [1..n -> EmailIds] : n \in 0..MaxIds }]

\* values of a List-Unsubscribe header
HeaderValues ==
    { "https://example.com/unsub", "mailto:unsub@example.com", "javascript:alert(1)" }

UnsubEnv ==
    [callers |-> {"u1", None},
     bodies |-> UnsubBodies,
     dbSelect |-> BOOLEAN, dbAttempt |-> BOOLEAN,
     auth |-> {"ok", "throws"},
     \* getGoogleClient stores the expiry of the refreshed token
     refresh |-> {1},
     get |-> HeaderValues \cup {"no_header", "throws"},
     modify |-> {"ok", "throws"}]

AttemptMethods == {"http", "mailto", "unknown"}
AttemptStatuses == {"pending", "success", "failed"}

\* unsubscribe_attempts: CHECK (method IN ...), CHECK (status IN ...),
\* email_id REFERENCES emails(id)
AttemptInsertAllowed(rec, dbOk) ==
    /\ dbOk
    /\ rec.method \in AttemptMethods
    /\ rec.status \in AttemptStatuses
    /\ \E e \in emails : IdOf(e) = rec.email_id

RECURSIVE Pow2(_)
Pow2(n) == IF n = 0 THEN 1 ELSE 2 * Pow2(n - 1)

Orderings(S) ==
    { s \in [1..Cardinality(S) -> S] : \A i, j \in DOMAIN s : s[i] = s[j] => i = j }

\* emails.reduce(...): groups in the order their account first appears
AddToGroups(acc, id) ==
    IF \E j \in DOMAIN acc : acc[j].account = id[1]
    THEN [j \in DOMAIN acc |->
            IF acc[j].account = id[1] THEN [acc[j] EXCEPT !.emails = Append(@, id)] ELSE acc[j]]
    ELSE Append(acc, [account |-> id[1], emails |-> <<id>>])

RECURSIVE EmailsByAccount(_)
EmailsByAccount(ids) ==
    IF ids = <<>> THEN <<>>
    ELSE AddToGroups(EmailsByAccount(SubSeq(ids, 1, Len(ids) - 1)), ids[Len(ids)])

NoTaskResult == [emailId |-> MissingId, success |-> FALSE, message |-> "pending", retries |-> 0]

NewTask(id) ==
    [emailId |-> id, pc |-> "get", retries |-> 0, header |-> FALSE, link |-> None,
     attempt |-> NoId,
     result |-> NoTaskResult,
     \* ghost fields
     gets |-> 0, waits |-> <<>>]

NoResults == [successful |-> 0, failed |-> 0, skipped |-> 0, total |-> 0, details |-> <<>>]

IdleUnsub ==
    [pc |-> "idle", caller |-> None, emailIds |-> <<>>, i |-> 1, groups |-> <<>>, g |-> 1,
     tasks |-> <<>>, results |-> NoResults, status |-> 0,
     \* ghost field: the select of a chunk returned an error
     selectFailed |-> FALSE]

UnsubUnused ==
    /\ unsub = IdleUnsub
    /\ attempts = <<>>
    /\ labels = {}

Detail(id, message) == [emailId |-> id, success |-> FALSE, message |-> message, retries |-> 0]

RECURSIVE Details(_, _)
Details(ids, message) ==
    IF ids = <<>> THEN <<>> ELSE <<Detail(Head(ids), message)>> \o Details(Tail(ids), message)

UnsubRespond(rec, status) == [rec EXCEPT !.pc = "done", !.status = status]

\* lines 150-175: the body, the storage client, the counters
UnsubBegin(E) ==
    /\ unsub.pc = "idle"
    /\ \E caller \in E.callers, body \in E.bodies :
         unsub' = IF body.kind = "bad_json" THEN UnsubRespond([unsub EXCEPT !.caller = caller], 500)
                  ELSE IF body.kind = "not_array" \/ body.ids = <<>>
                       THEN UnsubRespond([unsub EXCEPT !.caller = caller], 400)
                  ELSE [unsub EXCEPT !.caller = caller, !.emailIds = body.ids, !.pc = "select",
                                     !.results = [NoResults EXCEPT !.total = Len(body.ids)]]
    /\ UNCHANGED <<accounts, emails, attempts, labels>>
    /\ UNCHANGED unsubFrame

\* the for loop over the accounts of a chunk moves on; after the last
\* account the loop over the chunks does
NextGroup(rec) ==
    IF rec.g < Len(rec.groups)
    THEN [rec EXCEPT !.g = @ + 1, !.tasks = <<>>, !.pc = "auth"]
    ELSE [rec EXCEPT !.i = @ + BATCH_SIZE, !.groups = <<>>, !.g = 1, !.tasks = <<>>, !.pc = "select"]

\* lines 178-236: the rows of one chunk, grouped by account
UnsubSelect(E) ==
    /\ unsub.pc = "select"
    /\ unsub.i <= Len(unsub.emailIds)
    /\ LET batch == SubSeq(unsub.emailIds, unsub.i, Min(unsub.i + BATCH_SIZE - 1, Len(unsub.emailIds)))
           found == {IdOf(e) : e \in {x \in emails : IdOf(x) \in Range(batch)}}
       IN \E dbOk \in E.dbSelect, rows \in Orderings(found) :
            unsub' = IF ~dbOk THEN UnsubRespond([unsub EXCEPT !.selectFailed = TRUE], 500)
                     ELSE IF rows = <<>>
                          THEN [unsub EXCEPT !.results.skipped = @ + Len(batch),
                                             !.results.details = @ \o Details(batch, "not_found"),
                                             !.i = @ + BATCH_SIZE]
                     ELSE [unsub EXCEPT !.groups = EmailsByAccount(rows), !.g = 1, !.pc = "auth"]
    /\ UNCHANGED <<accounts, emails, attempts, labels>>
    /\ UNCHANGED unsubFrame

\* line 273: every chunk is done
UnsubFinish ==
    /\ unsub.pc = "select"
    /\ unsub.i > Len(unsub.emailIds)
    /\ unsub' = UnsubRespond(unsub, 200)
    /\ UNCHANGED <<accounts, emails, attempts, labels>>
    /\ UNCHANGED unsubFrame

AccountFailed_Abort(rec, group) == UnsubRespond(rec, 500)

\* lines 258-269: the catch of the account loop marks every email of the
\* account as failed and goes on with the next account
AccountFailed(rec, group) ==
    NextGroup([rec EXCEPT !.results.failed = @ + Len(group.emails),
                          !.results.details = @ \o Details(group.emails, "account_error")])

\* lines 239-247 and 258-269: getGoogleClient, then one unsubscribeEmail per
\* email of the account; a token failure fails them all
UnsubAuth(E) ==
    /\ unsub.pc = "auth"
    /\ LET group == unsub.groups[unsub.g]
       IN \E auth \in E.auth, later \in E.refresh :
            IF auth = "throws"
            THEN /\ unsub' = AccountFailed(unsub, group)
                 /\ UNCHANGED accounts
            ELSE /\ accounts' = [accounts EXCEPT ![group.account].token_expiry = @ + later]
                 /\ unsub' = [unsub EXCEPT !.tasks = [k \in DOMAIN group.emails |-> NewTask(group.emails[k])],
                                           !.pc = "tasks"]
    /\ UNCHANGED <<emails, attempts, labels>>
    /\ UNCHANGED unsubFrame

\* Mutation: the catch block without its final return, so that the third
\* failure backs off as well.
TaskCatch_NoFinalReturn(t) ==
    [t EXCEPT !.retries = @ + 1, !.pc = "backoff", !.waits = Append(@, Pow2(t.retries + 1))]

\* catch (error): count the retry, then the final failure row or the backoff
TaskCatch(t) ==
    LET r == t.retries + 1
    IN IF r = MAX_RETRIES THEN [t EXCEPT !.retries = r, !.pc = "log_failure"]
       ELSE [t EXCEPT !.retries = r, !.pc = "backoff", !.waits = Append(@, Pow2(r))]

TaskReturn(t, success, message) ==
    [t EXCEPT !.pc = "done",
              !.result = [emailId |-> t.emailId, success |-> success, message |-> message,
                          retries |-> t.retries]]

Running(k) == unsub.pc = "tasks" /\ k \in DOMAIN unsub.tasks

\* gmail.users.messages.get with the List-Unsubscribe header
UnsubGet(k, E) ==
    /\ Running(k)
    /\ unsub.tasks[k].pc = "get"
    /\ \E answer \in E.get :
         LET t == [unsub.tasks[k] EXCEPT !.gets = @ + 1]
         IN unsub' = [unsub EXCEPT !.tasks[k] =
                IF answer = "throws" THEN TaskCatch(t)
                ELSE [t EXCEPT !.header = (answer \in HeaderValues),
                               !.link = IF answer \in HeaderValues THEN answer ELSE None,
                               !.pc = "log"]]
    /\ UNCHANGED <<accounts, emails, attempts, labels>>
    /\ UNCHANGED unsubFrame

NextAttemptId == Len(attempts) + 1

\* the writes of unsubscribeEmail to unsubscribe_attempts: the pending row,
\* the update to success, the final failure row
UnsubWrite(k, E) ==
    /\ Running(k)
    /\ unsub.tasks[k].pc \in {"log", "update", "log_failure"}
    /\ \E dbOk \in E.dbAttempt :
         LET t == unsub.tasks[k]
             pending == [id |-> NextAttemptId, email_id |-> t.emailId,
                         method |-> IF t.header THEN "list_unsubscribe" ELSE "mark_spam",
                         status |-> "pending", link |-> t.link]
             failure == [id |-> NextAttemptId, email_id |-> t.emailId,
                         method |-> "failed", status |-> "failed", link |-> None]
             success == IF t.header THEN "unsubscribed" ELSE "marked_spam"
         IN CASE t.pc = "log" ->
                   IF AttemptInsertAllowed(pending, dbOk)
                   THEN /\ attempts' = Append(attempts, pending)
                        /\ unsub' = [unsub EXCEPT !.tasks[k] = [t EXCEPT !.attempt = pending.id, !.pc = "modify"]]
                   ELSE /\ unsub' = [unsub EXCEPT !.tasks[k] = [t EXCEPT !.attempt = NoId, !.pc = "modify"]]
                        /\ UNCHANGED attempts
              [] t.pc = "update" ->
                   /\ attempts' = IF dbOk
                                  THEN [j \in DOMAIN attempts |->
                                          IF attempts[j].id = t.attempt
                                          THEN [attempts[j] EXCEPT !.status = "success"]
                                          ELSE attempts[j]]
                                  ELSE attempts
                   /\ unsub' = [unsub EXCEPT !.tasks[k] = TaskReturn(t, TRUE, success)]
              [] t.pc = "log_failure" ->
                   /\ attempts' = IF AttemptInsertAllowed(failure, dbOk)
                                  THEN Append(attempts, failure) ELSE attempts
                   /\ unsub' = [unsub EXCEPT !.tasks[k] = TaskReturn(t, FALSE, "failed_after")]
    /\ UNCHANGED <<accounts, emails, labels>>
    /\ UNCHANGED unsubFrame

\* gmail.users.messages.modify: remove UNSUBSCRIBE or add SPAM
UnsubModify(k, E) ==
    /\ Running(k)
    /\ unsub.tasks[k].pc = "modify"
    /\ \E answer \in E.modify :
         LET t == unsub.tasks[k]
             change == [account |-> t.emailId[1], msg |-> t.emailId[2],
                        label |-> IF t.header THEN "-UNSUBSCRIBE" ELSE "+SPAM"]
         IN IF answer = "throws"
            THEN /\ unsub' = [unsub EXCEPT !.tasks[k] = TaskCatch(t)]
                 /\ UNCHANGED labels
            ELSE /\ labels' = labels \cup {change}
                 /\ unsub' = [unsub EXCEPT !.tasks[k] =
                        IF t.attempt # NoId THEN [t EXCEPT !.pc = "update"]
                        ELSE TaskReturn(t, TRUE, IF t.header THEN "unsubscribed" ELSE "marked_spam")]
    /\ UNCHANGED <<accounts, emails, attempts>>
    /\ UNCHANGED unsubFrame

\* the timer of the backoff fires; the while loop tests retries again
UnsubBackoff(k) ==
    /\ Running(k)
    /\ unsub.tasks[k].pc = "backoff"
    /\ unsub' = [unsub EXCEPT !.tasks[k] =
           IF @.retries < MAX_RETRIES THEN [@ EXCEPT !.pc = "get"]
           ELSE TaskReturn(@, FALSE, "max_retries")]
    /\ UNCHANGED <<accounts, emails, attempts, labels>>
    /\ UNCHANGED unsubFrame

RECURSIVE Count(_, _)
Count(results, success) ==
    IF results = <<>> THEN 0
    ELSE (IF Head(results).success = success THEN 1 ELSE 0) + Count(Tail(results), success)

\* lines 249-257: Promise.all resolved, the results of the account are counted
UnsubCollect ==
    /\ unsub.pc = "tasks"
    /\ \A k \in DOMAIN unsub.tasks : unsub.tasks[k].pc = "done"
    /\ LET accountResults == [k \in DOMAIN unsub.tasks |-> unsub.tasks[k].result]
       IN unsub' = NextGroup([unsub EXCEPT
                       !.results.successful = @ + Count(accountResults, TRUE),
                       !.results.failed = @ + Count(accountResults, FALSE),
                       !.results.details = @ \o accountResults])
    /\ UNCHANGED <<accounts, emails, attempts, labels>>
    /\ UNCHANGED unsubFrame

(***************************************************************************)
(* /api/emails/[id]: GET, DELETE and POST /api/emails/[id]/move, one step  *)
(* per await.  The requests of Slots are in flight together.               *)
(***************************************************************************)
NullTime == 0       \* a TIMESTAMPTZ column holding NULL
Slots == {1, 2}

\* new Date().toISOString(), a value that is never NULL
Stamp == clock + 1

\* an emails row with its soft-delete marker and its read marker
MailRow(a, m, c) ==
    [google_account_id |-> a, gmail_message_id |-> m, category_id |-> c,
     summarized_text |-> SynthSummary(FromOf(m), SubjectOf(m)), cls |-> "pre", by |-> 0,
     deleted_at |-> NullTime, read_at |-> NullTime]

MailCategories == <<Cat(1, "Inbox", "u1"), Cat(2, "Work", "u1"), Cat(3, "Inbox", "u2")>>

MailRows == {MailRow("a1", 1, 1), MailRow("a2", 1, 3)}

\* the requests: the dynamic segment [id], the session cookie, the body's
\* categoryId (NoId when the body has none), and the answers of the storage
MailEnv ==
    [kinds |-> {"GET", "DELETE", "MOVE"},
     ids |-> {IdOf(e) : e \in MailRows},
     callers |-> {"u1", None},
     categoryIds |-> {2, NoId},
     db |-> BOOLEAN]

\* late and orphan are ghosts: when the request arrived, the email carried a
\* deleted_at (late), or no category (orphan)
IdleReq ==
    [pc |-> "idle", kind |-> None, id |-> MissingId, user |-> None, categoryId |-> NoId,
     status |-> 0, late |-> FALSE, orphan |-> FALSE]

MailUnused == reqs = [k \in Slots |-> IdleReq]

MailRespond(rec, status) == [rec EXCEPT !.pc = "done", !.status = status]

\* .from("categories").select(..).eq("id", categoryId).eq("user_id", userId).single()
TargetCategory(categoryId, userId) ==
    { i \in DOMAIN categories : categories[i].id = categoryId /\ categories[i].user_id = userId }

\* Mutation: the lookup of the email without its filter on deleted_at.
SelectLive_AnyRow(rows, id) ==
    { e \in rows : /\ IdOf(e) = id
                   /\ \E i \in DOMAIN categories : categories[i].id = e.category_id }

\* .from("emails").select(`.., categories!inner(user_id)`).eq("id", id)
\*   .is("deleted_at", null).single(): the row when it is not soft-deleted and
\* its category exists.
SelectLive(rows, id) ==
    { e \in rows : /\ IdOf(e) = id
                   /\ e.deleted_at = NullTime
                   /\ \E i \in DOMAIN categories : categories[i].id = e.category_id }

\* email.categories.user_id
CategoryOwner(e) ==
    categories[CHOOSE i \in DOMAIN categories : categories[i].id = e.category_id].user_id

\* .from("emails").update({field: value}).eq("id", id)
UpdateEmail(rows, id, field, value) ==
    { IF IdOf(e) = id THEN [e EXCEPT ![field] = value] ELSE e : e \in rows }

\* the request arrives: params, body (move), session cookie
MailBegin(k, E) ==
    /\ reqs[k].pc \in {"idle", "done"}
    /\ \E kind \in E.kinds, id \in E.ids, caller \in E.callers, categoryId \in E.categoryIds :
         /\ kind # "MOVE" => categoryId = NoId
         /\ LET rec == [IdleReq EXCEPT !.kind = kind, !.id = id, !.user = caller,
                                       !.categoryId = categoryId,
                                       !.late = \E e \in emails :
                                                   IdOf(e) = id /\ e.deleted_at # NullTime,
                                       !.orphan = \E e \in emails :
                                                   IdOf(e) = id /\ e.category_id = NoId]
            IN reqs' = [reqs EXCEPT ![k] =
                         IF kind = "MOVE" /\ categoryId = NoId THEN MailRespond(rec, 400)
                         ELSE IF caller = None THEN MailRespond(rec, 401)
                         ELSE IF kind = "MOVE" THEN [rec EXCEPT !.pc = "category"]
                         ELSE [rec EXCEPT !.pc = "select"]]
    /\ UNCHANGED emails
    /\ UNCHANGED mailFrame

\* move, lines 46-59: the target category must belong to the caller
MailCategory(k, E) ==
    /\ reqs[k].pc = "category"
    /\ \E dbOk \in E.db :
         reqs' = [reqs EXCEPT ![k] =
                   IF ~dbOk \/ TargetCategory(@.categoryId, @.user) = {}
                   THEN MailRespond(@, 404)
                   ELSE [@ EXCEPT !.pc = "select"]]
    /\ UNCHANGED emails
    /\ UNCHANGED mailFrame

\* lines 62-91, 155-215, 267-296: the email, then its owner; a GET of an
\* email that was read before answers without a write
\* Mutation: the lookup of the email with a left join, which keeps an email
\* that has no category, and no owner to compare with the caller.
MailSelect_LeftJoin(k, E) ==
    /\ reqs[k].pc = "select"
    /\ \E dbOk \in E.db :
         LET hit == { e \in emails : IdOf(e) = reqs[k].id /\ e.deleted_at = NullTime }
         IN reqs' = [reqs EXCEPT ![k] =
                      IF ~dbOk \/ hit = {} THEN MailRespond(@, 404)
                      ELSE LET email == CHOOSE e \in hit : TRUE
                           IN IF CategoryExists(email.category_id) /\ email.category_id # NoId
                                 /\ CategoryOwner(email) # @.user
                              THEN MailRespond(@, 403)
                              ELSE IF @.kind = "GET" /\ email.read_at # NullTime
                                   THEN MailRespond(@, 200)
                              ELSE [@ EXCEPT !.pc = "update"]]
    /\ UNCHANGED emails
    /\ UNCHANGED mailFrame

MailSelect(k, E) ==
    /\ reqs[k].pc = "select"
    /\ \E dbOk \in E.db :
         LET hit == SelectLive(emails, reqs[k].id)
         IN reqs' = [reqs EXCEPT ![k] =
                      IF ~dbOk \/ hit = {} THEN MailRespond(@, 404)
                      ELSE LET email == CHOOSE e \in hit : TRUE
                           IN IF CategoryOwner(email) # @.user THEN MailRespond(@, 403)
                              ELSE IF @.kind = "GET" /\ email.read_at # NullTime
                                   THEN MailRespond(@, 200)
                              ELSE [@ EXCEPT !.pc = "update"]]
    /\ UNCHANGED emails
    /\ UNCHANGED mailFrame

\* lines 94-110, 211-227, 299-312: the write, filtered by id alone; GET does
\* not inspect the answer of its write; the storage refuses a category_id
\* that names no category
MailUpdate(k, E) ==
    /\ reqs[k].pc = "update"
    /\ \E answer \in E.db :
         LET rec == reqs[k]
             dbOk == answer /\ (rec.kind = "MOVE" => CategoryExists(rec.categoryId))
             written == CASE rec.kind = "GET" ->
                               UpdateEmail(emails, rec.id, "read_at", Stamp)
                          [] rec.kind = "DELETE" ->
                               UpdateEmail(emails, rec.id, "deleted_at", Stamp)
                          [] OTHER ->
                               UpdateEmail(emails, rec.id, "category_id", rec.categoryId)
         IN /\ emails' = IF dbOk THEN written ELSE emails
            /\ reqs' = [reqs EXCEPT ![k] =
                         MailRespond(@, IF dbOk \/ rec.kind = "GET" THEN 200 ELSE 500)]
    /\ UNCHANGED mailFrame

(***************************************************************************)
(* DELETE /api/categories: one storage call, so one step.                  *)
(***************************************************************************)
\* the requests: the id of the query string (NoId when it is missing), the
\* session cookie, and the answer of the storage
CatEnv ==
    [catIds |-> {1, 2, NoId},
     callers |-> {"u1", None},
     db |-> BOOLEAN]

IdleCatReq == [id |-> NoId, user |-> None, status |-> 0]

CatUnused == catReq = IdleCatReq

\* .from("categories").delete().eq("id", id).eq("user_id", userId)
DeleteCategory(rows, id, userId) ==
    SelectSeq(rows, LAMBDA c : ~(c.id = id /\ c.user_id = userId))

\* emails.category_id ... ON DELETE SET NULL, for the categories that the
\* delete removed
SetNullCategory(rows, gone) ==
    { IF e.category_id \in gone THEN [e EXCEPT !.category_id = NoId] ELSE e : e \in rows }

CategoriesDelete(E) ==
    \E id \in E.catIds, caller \in E.callers, dbOk \in E.db :
        LET kept == DeleteCategory(categories, id, caller)
            gone == {categories[i].id : i \in DOMAIN categories} \ {kept[i].id : i \in DOMAIN kept}
            status == IF id = NoId THEN 400
                      ELSE IF caller = None THEN 401
                      ELSE IF ~dbOk THEN 500
                      ELSE 200
        IN /\ catReq' = [id |-> id, user |-> caller, status |-> status]
           /\ categories' = IF status = 200 THEN kept ELSE categories
           /\ emails' = IF status = 200 THEN SetNullCategory(emails, gone) ELSE emails
           /\ UNCHANGED catFrame

(***************************************************************************)
(* lib/ai chooseCategoryWithLLM and summarizeEmail, called on their own:   *)
(* the inputs of a call are fixed when it is made, and one step runs it    *)
(* to its result.                                                          *)
(***************************************************************************)
NoChoice == [threw |-> FALSE, categoryId |-> None, requests |-> 0]

IdleLLM == [pc |-> "idle", cats |-> <<>>, answer |-> [kind |-> "no_text", text |-> <<>>],
            out |-> NoChoice]

\* the call returns what chooseCategoryWithLLM computes from the categories,
\* the provider key and the answer of the chat endpoint
LLMChoose ==
    /\ llm.pc = "call"
    /\ llm' = [llm EXCEPT !.pc = "done",
                          !.out = ChooseCategoryWithLLM(llm.cats, aiKey, llm.answer)]
    /\ UNCHANGED <<fnFrame, summ>>

(* The reply of the summarizer, as pieces of text: the two labels, a line  *)
(* break, a space, a bullet, the letter z and any other letter.            *)
SummaryLabel == "Summary:"
ActionsLabel == "Actions:"
Blank == {" ", "\n"}
Bullets == {"-", "*"}
SummaryChars == {"a", "z", " "}
ActionsChars == {"a", "-", "\n"}

SummaryTexts == UNION { [1..n -> SummaryChars] : n \in 0..MaxTextLen }
ActionsTexts == UNION { [1..n -> ActionsChars] : n \in 0..MaxTextLen }

\* a reply "Summary: S", followed or not by a line "Actions: A"
ReplyParts == [S : SummaryTexts, hasActions : BOOLEAN, A : ActionsTexts]

ReplyText(parts) ==
    <<SummaryLabel, " ">> \o parts.S
        \o (IF parts.hasActions THEN <<"\n", ActionsLabel, " ">> \o parts.A ELSE <<>>)

SummaryParts == { q \in ReplyParts : q.hasActions \/ q.A = <<>> }

SummaryAnswers ==
    [kind : PostJsonFailures \cup {"no_text"}, parts : {[S |-> <<>>, hasActions |-> FALSE, A |-> <<>>]}]
        \cup [kind : {"reply"}, parts : SummaryParts]

\* String.prototype.trim
RECURSIVE TrimStart(_)
TrimStart(s) ==
    IF s # <<>> /\ Head(s) \in Blank THEN TrimStart(Tail(s)) ELSE s

RECURSIVE TrimEnd(_)
TrimEnd(s) ==
    IF s # <<>> /\ s[Len(s)] \in Blank THEN TrimEnd(SubSeq(s, 1, Len(s) - 1)) ELSE s

TrimText(s) == TrimEnd(TrimStart(s))

\* \s* from position i: the position of the first piece that is not blank
RECURSIVE SkipBlanks(_, _)
SkipBlanks(s, i) ==
    IF i <= Len(s) /\ s[i] \in Blank THEN SkipBlanks(s, i + 1) ELSE i

\* (?:\nActions:|\z) at position i: outside unicode mode \z is the letter z
EndsSummary(s, i) ==
    \/ s[i] = "z"
    \/ s[i] = "\n" /\ i < Len(s) /\ s[i + 1] = ActionsLabel

SetMin(S) == CHOOSE x \in S : \A y \in S : x <= y

\* /Summary:\s*([\s\S]*?)(?:\nActions:|\z)/i with the label at position p:
\* \s* takes every blank, the lazy group runs to the first end after them;
\* when there is none, \s* gives back the line break of "\nActions:"
SummaryGroupAt(s, p) ==
    LET start == SkipBlanks(s, p + 1)
        ends == { i \in start..Len(s) : EndsSummary(s, i) }
    IN IF ends # {} THEN [found |-> TRUE, group |-> SubSeq(s, start, SetMin(ends) - 1)]
       ELSE IF start - 1 > p /\ EndsSummary(s, start - 1) THEN [found |-> TRUE, group |-> <<>>]
       ELSE [found |-> FALSE, group |-> <<>>]

\* assistant.match(/Summary:.../i): the leftmost label the pattern matches at
SummaryMatch(s) ==
    LET at == { p \in DOMAIN s : s[p] = SummaryLabel /\ SummaryGroupAt(s, p).found }
    IN IF at = {} THEN [found |-> FALSE, group |-> <<>>] ELSE SummaryGroupAt(s, SetMin(at))

\* assistant.match(/Actions:\s*([\s\S]*)/i): everything after the first label
ActionsMatch(s) ==
    LET at == { p \in DOMAIN s : s[p] = ActionsLabel }
    IN IF at = {} THEN [found |-> FALSE, group |-> <<>>]
       ELSE [found |-> TRUE, group |-> SubSeq(s, SkipBlanks(s, SetMin(at) + 1), Len(s))]

\* s.split(/\r?\n/)
RECURSIVE SplitLines(_)
SplitLines(s) ==
    LET first == FirstLine(s)
    IN IF Len(first) = Len(s) THEN <<first>>
       ELSE <<first>> \o SplitLines(SubSeq(s, Len(first) + 2, Len(s)))

\* line.replace(/^\s*[-*]\s*/, '').trim()
StripBullet(line) ==
    LET t == TrimStart(line)
    IN IF t # <<>> /\ Head(t) \in Bullets THEN TrimText(Tail(t)) ELSE TrimText(line)

ActionLines(raw) ==
    IF raw = <<>> THEN <<>>
    ELSE LET lines == SplitLines(raw)
         IN SelectSeq([i \in DOMAIN lines |-> StripBullet(lines[i])], LAMBDA l : Len(l) > 0)

ParseSummary(assistant) ==
    LET summaryMatch == SummaryMatch(assistant)
        actionsMatch == ActionsMatch(assistant)
        actionsRaw == IF actionsMatch.found THEN TrimText(actionsMatch.group) ELSE <<>>
    IN [summary |-> IF summaryMatch.found THEN TrimText(summaryMatch.group)
                    ELSE TrimText(assistant),
        actions |-> ActionLines(actionsRaw)]

NoSummary == [threw |-> FALSE, summary |-> <<>>, actions |-> <<>>]

SummarizeEmail(key, answer) ==
    IF key = None \/ answer.kind # "reply" THEN [NoSummary EXCEPT !.threw = TRUE]
    ELSE LET parsed == ParseSummary(ReplyText(answer.parts))
         IN [threw |-> FALSE, summary |-> parsed.summary, actions |-> parsed.actions]

IdleSumm == [pc |-> "idle",
             answer |-> [kind |-> "no_text", parts |-> [S |-> <<>>, hasActions |-> FALSE, A |-> <<>>]],
             out |-> NoSummary]

Summarize ==
    /\ summ.pc = "call"
    /\ summ' = [summ EXCEPT !.pc = "done", !.out = SummarizeEmail(aiKey, summ.answer)]
    /\ UNCHANGED <<fnFrame, llm>>

FnUnused == llm = IdleLLM /\ summ = IdleSumm

Init ==
    /\ accounts = InitAccounts
    /\ categories \in CatConfigs
    /\ emails \in SUBSET {PreRow("a1", 1), PreRow("a2", MaxMsgs)}
    /\ mailbox \in [Accounts -> {Msgs, {}}]
    /\ aiKey \in {"openrouter", None}
    /\ run = [r \in Runs |-> IdleRun]
    /\ finished = <<>>
    /\ AIUnused
    /\ UnsubUnused
    /\ MailUnused
    /\ CatUnused
    /\ FnUnused

Next == Sync(1, FullEnv)

Spec == Init /\ [][Next]_vars

(***************************************************************************)
(* Specification SpecTwo: the sync requests of Runs, interleaved at every  *)
(* await, over mailboxes that hold the same message ids.                   *)
(***************************************************************************)
InitTwo ==
    /\ accounts = InitAccounts
    /\ categories = <<>>
    /\ emails = {}
    /\ mailbox = [a \in Accounts |-> Msgs]
    /\ aiKey = None
    /\ run = [r \in Runs |-> IdleRun]
    /\ finished = <<>>
    /\ AIUnused
    /\ UnsubUnused
    /\ MailUnused
    /\ CatUnused
    /\ FnUnused

NextTwo == \E r \in Runs : Sync(r, RaceEnv)

SpecTwo == InitTwo /\ [][NextTwo]_vars

(***************************************************************************)
(* Specification SpecPage: one sync request of user u1 over an inbox that  *)
(* holds one message more than a page, one of them imported before; the    *)
(* detail fetch and the insert can fail for each message.                  *)
(***************************************************************************)
PageEnv ==
    [requests |-> {<<"a1", "u1">>},
     now |-> {1},
     dbAccount |-> {TRUE}, dbCategories |-> {TRUE}, dbInbox |-> {TRUE},
     dbSelect |-> {TRUE}, dbInsert |-> BOOLEAN, dbUpdate |-> {TRUE},
     list |-> {"ok"},
     fetch |-> {"ok", "not_ok", "throws"},
     replies |-> {[kind |-> "empty", category |-> "Other", summary |-> ""]},
     archive |-> {"ok"}]

InitPage ==
    /\ accounts = InitAccounts
    /\ categories = <<>>
    /\ emails \in {{}, {PreRow("a1", 1)}}
    /\ mailbox = [a \in Accounts |-> 1..(PAGE_SIZE + 1)]
    /\ aiKey = None
    /\ run = [r \in Runs |-> IdleRun]
    /\ finished = <<>>
    /\ AIUnused
    /\ UnsubUnused
    /\ MailUnused
    /\ CatUnused
    /\ FnUnused

NextPage == Sync(1, PageEnv)

SpecPage == InitPage /\ [][NextPage]_vars

(***************************************************************************)
(* Specification SpecAI: calls of classifyEmail one after another, sharing  *)
(* the category embedding cache, with or without a configured provider.    *)
(***************************************************************************)
InitAI ==
    /\ accounts = InitAccounts
    /\ categories = <<>>
    /\ emails = {}
    /\ mailbox = [a \in Accounts |-> {}]
    /\ aiKey \in {"openrouter", None}
    /\ run = [r \in Runs |-> IdleRun]
    /\ finished = <<>>
    /\ AIUnused
    /\ UnsubUnused
    /\ MailUnused
    /\ CatUnused
    /\ FnUnused

NextAI ==
    \/ AIBegin
    \/ AIEmbedEmail
    \/ AIEmbedCategory
    \/ AIChooseLLM
    \/ AILastResort
    \/ Tick

SpecAI == InitAI /\ [][NextAI]_vars

(***************************************************************************)
(* Specification SpecUnsub: one bulk unsubscribe request of user u1, or of *)
(* nobody, over the emails of two users.                                   *)
(***************************************************************************)
InitUnsub ==
    /\ accounts = InitAccounts
    /\ categories = <<Cat(1, "Inbox", "u1")>>
    /\ emails = UnsubRows
    /\ mailbox = [a \in Accounts |-> {}]
    /\ aiKey = None
    /\ run = [r \in Runs |-> IdleRun]
    /\ finished = <<>>
    /\ AIUnused
    /\ UnsubUnused
    /\ MailUnused
    /\ CatUnused
    /\ FnUnused

NextUnsub ==
    \/ UnsubBegin(UnsubEnv)
    \/ UnsubSelect(UnsubEnv)
    \/ UnsubFinish
    \/ UnsubAuth(UnsubEnv)
    \/ \E k \in 1..MaxIds :
         \/ UnsubGet(k, UnsubEnv)
         \/ UnsubWrite(k, UnsubEnv)
         \/ UnsubModify(k, UnsubEnv)
         \/ UnsubBackoff(k)
    \/ UnsubCollect

SpecUnsub == InitUnsub /\ [][NextUnsub]_vars

(***************************************************************************)
(* Specification SpecRetry: one bulk unsubscribe request of user u1 for    *)
(* the emails of account a1, which run as parallel unsubscribeEmail calls, *)
(* under every answer of Gmail and of the storage to those calls.  The     *)
(* runtime runs a continuation whenever one is ready: every Gmail and      *)
(* storage call settles and every timer fires.                             *)
(***************************************************************************)
RetryIds == { id \in EmailIds : id[1] = "a1" /\ id # MissingId }

RetryEnv ==
    [UnsubEnv EXCEPT !.callers = {"u1"},
                     !.bodies = [kind : {"array"}, ids : Orderings(RetryIds)],
                     !.dbSelect = {TRUE},
                     !.auth = {"ok"}]

NextRetry ==
    \/ UnsubBegin(RetryEnv)
    \/ UnsubSelect(RetryEnv)
    \/ UnsubFinish
    \/ UnsubAuth(RetryEnv)
    \/ \E k \in 1..MaxIds :
         \/ UnsubGet(k, RetryEnv)
         \/ UnsubWrite(k, RetryEnv)
         \/ UnsubModify(k, RetryEnv)
         \/ UnsubBackoff(k)
    \/ UnsubCollect

SpecRetry == InitUnsub /\ [][NextRetry]_vars /\ WF_vars(NextRetry)

(***************************************************************************)
(* Specification SpecMail: requests on the emails of two users, by user u1 *)
(* or by nobody, one after another and overlapping, while time passes.     *)
(***************************************************************************)
InitMail ==
    /\ accounts = InitAccounts
    /\ categories = MailCategories
    /\ emails = MailRows
    /\ mailbox = [a \in Accounts |-> {}]
    /\ aiKey = None
    /\ run = [r \in Runs |-> IdleRun]
    /\ finished = <<>>
    /\ AIUnused
    /\ UnsubUnused
    /\ MailUnused
    /\ CatUnused
    /\ FnUnused

NextMail ==
    \/ \E k \in Slots :
         \/ MailBegin(k, MailEnv)
         \/ MailCategory(k, MailEnv)
         \/ MailSelect(k, MailEnv)
         \/ MailUpdate(k, MailEnv)
    \/ Tick

SpecMail == InitMail /\ [][NextMail]_vars

(***************************************************************************)
(* Specification SpecOrphan: requests of user u1, or of nobody, on one     *)
(* email of u1, while u1 deletes categories.                               *)
(***************************************************************************)
OrphanEnv == [MailEnv EXCEPT !.ids = {IdOf(MailRow("a1", 1, 1))}]

\* the deletes: of either category of u1, by u1, the storage answering
OrphanCatEnv == [catIds |-> {1, 2}, callers |-> {"u1"}, db |-> {TRUE}]

NextOrphan ==
    \/ \E k \in Slots :
         \/ MailBegin(k, OrphanEnv)
         \/ MailCategory(k, OrphanEnv)
         \/ MailSelect(k, OrphanEnv)
         \/ MailUpdate(k, OrphanEnv)
    \/ CategoriesDelete(OrphanCatEnv)

SpecOrphan == InitMail /\ [][NextOrphan]_vars

(***************************************************************************)
(* Specification SpecCat: one sync request of user u1 while the user       *)
(* deletes categories, the request for a delete arriving at any await of   *)
(* the sync.                                                               *)
(***************************************************************************)
CatSyncEnv ==
    [RaceEnv EXCEPT !.requests = {<<"a1", "u1">>}, !.dbSelect = {TRUE}, !.archive = {"ok"}]

InitCat ==
    /\ accounts = InitAccounts
    /\ categories = <<Cat(1, "Work", "u1"), Cat(2, "Inbox", "u1")>>
    /\ emails = {}
    /\ mailbox = [a \in Accounts |-> Msgs]
    /\ aiKey = None
    /\ run = [r \in Runs |-> IdleRun]
    /\ finished = <<>>
    /\ AIUnused
    /\ UnsubUnused
    /\ MailUnused
    /\ CatUnused
    /\ FnUnused

NextCat ==
    \/ Sync(1, CatSyncEnv)
    \/ CategoriesDelete(CatEnv)

SpecCat == InitCat /\ [][NextCat]_vars

(***************************************************************************)
(* Specification SpecChoose: one call of chooseCategoryWithLLM, over the   *)
(* category lists, the provider key and the answers of the chat endpoint.  *)
(***************************************************************************)
InitChoose ==
    /\ accounts = InitAccounts
    /\ categories = <<>>
    /\ emails = {}
    /\ mailbox = [a \in Accounts |-> {}]
    /\ aiKey \in {"openrouter", None}
    /\ run = [r \in Runs |-> IdleRun]
    /\ finished = <<>>
    /\ AIUnused
    /\ UnsubUnused
    /\ MailUnused
    /\ CatUnused
    /\ llm \in [pc : {"call"}, cats : CategoryLists, answer : LLMAnswers, out : {NoChoice}]
    /\ summ = IdleSumm

NextChoose == LLMChoose

SpecChoose == InitChoose /\ [][NextChoose]_vars

(***************************************************************************)
(* Specification SpecSummary: one call of summarizeEmail, over the         *)
(* provider key and the answers of the chat endpoint.                      *)
(***************************************************************************)
InitSummary ==
    /\ accounts = InitAccounts
    /\ categories = <<>>
    /\ emails = {}
    /\ mailbox = [a \in Accounts |-> {}]
    /\ aiKey \in {"openrouter", None}
    /\ run = [r \in Runs |-> IdleRun]
    /\ finished = <<>>
    /\ AIUnused
    /\ UnsubUnused
    /\ MailUnused
    /\ CatUnused
    /\ llm = IdleLLM
    /\ summ \in [pc : {"call"}, answer : SummaryAnswers, out : {NoSummary}]

NextSummary == Summarize

SpecSummary == InitSummary /\ [][NextSummary]_vars

(***************************************************************************)
(* Properties of POST /api/gmail/sync.                                     *)
(***************************************************************************)
Done(r) == run[r].pc = "done"

Succeeded(r) == Done(r) /\ run[r].status = 200

\* r2 began after r1 had sent its response.
InSuccession(r1, r2) ==
    /\ r1 # r2 /\ Done(r1) /\ Done(r2)
    /\ \E k \in 1..Len(finished) : finished[k] = r1 /\ run[r2].began >= k

ResultsOf(r, result) == {k \in 1..Len(run[r].out) : run[r].out[k].result = result}

ErrorsAbout(r, m) == {k \in 1..Len(run[r].errors) : run[r].errors[k][2] = m}

RowsBy(r) == {e \in emails : e.by = r}

C2_FallbackIsInbox ==
    \A e \in emails :
        (e.by \in Runs /\ e.cls \in {"fallback", "no_candidates"})
        => e.category_id = run[e.by].inboxId

\* C3: the emails table never holds two rows with the same
\* (google_account_id, gmail_message_id); a message is counted in imported
\* by at most one request of the same account; a request counts exactly the
\* messages whose row it wrote, and an insert that lost is one error string.
C3_UniqueUnderConcurrency ==
    /\ \A e1 \in emails, e2 \in emails :
         ( /\ e1.google_account_id = e2.google_account_id
           /\ e1.gmail_message_id = e2.gmail_message_id ) => e1 = e2
    /\ \A r1 \in Runs, r2 \in Runs :
         (r1 # r2 /\ run[r1].acct = run[r2].acct)
         => {run[r1].out[k].msg : k \in ResultsOf(r1, "imported")}
              \cap {run[r2].out[k].msg : k \in ResultsOf(r2, "imported")} = {}
    /\ \A r \in Runs :
         /\ run[r].imported = Cardinality(ResultsOf(r, "imported"))
         /\ \A k \in ResultsOf(r, "imported") :
              \E e \in RowsBy(r) : e.gmail_message_id = run[r].out[k].msg
         /\ \A k \in ResultsOf(r, "insert_failed") :
              /\ Cardinality(ErrorsAbout(r, run[r].out[k].msg)) = 1
              /\ ~\E e \in RowsBy(r) : e.gmail_message_id = run[r].out[k].msg

\* Witness of C3: two requests of one account overlapped (the second began
\* before any response was sent), both passed the duplicate check for the
\* same message, one wrote the row and the other's insert failed.
C3_Witness ==
    \E r1 \in Runs, r2 \in Runs :
        /\ r1 # r2 /\ Done(r1) /\ Done(r2)
        /\ run[r1].acct = run[r2].acct
        /\ run[r1].began = 0 /\ run[r2].began = 0
        /\ \E k1 \in ResultsOf(r1, "imported"), k2 \in ResultsOf(r2, "insert_failed") :
             run[r1].out[k1].msg = run[r2].out[k2].msg

OnlyInbox(cats) == \A k \in 1..Len(cats) : Lower(cats[k].name) = "inbox"

\* C4: when the user's categories hold nothing but Inbox (in any letter
\* case), every row the run writes has category_id = the Inbox id and the
\* summary 'Email from {sender}: {subject}', and the run makes no AI call.
C4_OnlyInboxSkipsAI ==
    \A r \in Runs :
        (run[r].pc \notin {"idle", "categories", "inbox"} /\ OnlyInbox(run[r].cats))
        => /\ run[r].aiCalls = 0
           /\ \A e \in RowsBy(r) :
                /\ e.category_id = run[r].inboxId
                /\ e.category_id # NoId
                /\ e.summarized_text =
                       SynthSummary(FromOf(e.gmail_message_id), SubjectOf(e.gmail_message_id))

\* Witness of C4: an AI key is configured, the user has only an Inbox
\* category, and the run imported a message.
C4_Witness ==
    \E r \in Runs :
        /\ Succeeded(r) /\ aiKey # None
        /\ OnlyInbox(run[r].cats)
        /\ run[r].imported >= 1

InsertFailed(r, m) ==
    \E k \in 1..Len(run[r].errors) : run[r].errors[k] = <<"Failed to import email", m>>

\* C5: when the insert of a message fails, exactly one error string is
\* pushed for it, it is not counted in imported, no archive call is made
\* for it, the loop goes on to the later messages and the run ends with a
\* success response.
C5_InsertFailureContained ==
    \A r \in Runs : \A m \in Msgs :
        InsertFailed(r, m)
        => /\ Cardinality(ErrorsAbout(r, m)) = 1
           /\ m \notin run[r].archiveCalls
           /\ ~\E k \in ResultsOf(r, "imported") : run[r].out[k].msg = m
           /\ run[r].imported = Cardinality(ResultsOf(r, "imported"))
           /\ run[r].imported <= Len(run[r].page) - 1
           /\ run[r].pc \in {"check", "fetch", "classify", "insert", "archive",
                             "finish", "done"}
           /\ Done(r) => /\ run[r].status = 200
                         /\ Len(run[r].out) = Len(run[r].page)

\* Witness of C5: the insert of the first message of the page failed, a
\* later message was imported, and the response was sent.
C5_Witness ==
    \E r \in Runs :
        /\ Succeeded(r)
        /\ Len(run[r].page) >= 2
        /\ InsertFailed(r, run[r].page[1])
        /\ \E k \in ResultsOf(r, "imported") : k > 1

\* C6: a run that ends because the token is expired or because Gmail
\* rejects the listing returns an error status and has written nothing: no
\* row, no category, no last_sync_at, and it made no AI call.
C6_AuthFailureWritesNothing ==
    \A r \in Runs :
        (Done(r) /\ run[r].why \in {"token_expired", "gmail_error"})
        => /\ run[r].status >= 400
           /\ RowsBy(r) = {}
           /\ ~run[r].createdInbox
           /\ ~run[r].updatedSync
           /\ run[r].aiCalls = 0

\* C7: every run that ends with a success response has updated the
\* account's last_sync_at.
C7_SuccessUpdatesLastSync ==
    \A r \in Runs :
        Succeeded(r) => /\ run[r].updatedSync
                        /\ accounts[run[r].acct].last_sync_at # 0


(***************************************************************************)
(* Properties of lib/ai.ts classifyEmail.                                  *)
(***************************************************************************)
Returned == call.pc = "done" /\ ~call.threw

\* classifyByEmbeddings returned with a top score
TopScoreKnown == call.scored

HighestMeets(t) == \E i \in DOMAIN call.scores : ScoreGeThreshold(call.scores[i].score, t)

HighestIds ==
    { call.scores[i].id : i \in { j \in DOMAIN call.scores :
          \A k \in DOMAIN call.scores : ScoreGe(call.scores[j].score, call.scores[k].score) } }

\* C8: when the embedding stage completes with a top score, a highest cosine
\* similarity >= t makes the finished call return a highest-scoring category
\* with method 'embeddings' without invoking the LLM; a highest similarity
\* < t makes the method differ from 'embeddings' and the LLM is invoked.
C8_ThresholdDecides ==
    (call.pc = "done" /\ TopScoreKnown) =>
        IF HighestMeets(call.threshold)
        THEN /\ ~call.threw
             /\ call.result.method = "embeddings"
             /\ call.result.categoryId \in HighestIds
             /\ call.llmInvoked = 0
             /\ call.llmRequests = 0
        ELSE /\ call.result.method # "embeddings"
             /\ call.llmInvoked >= 1

\* a finished call whose top score is exactly the default threshold 0.72
C8_Witness ==
    /\ call.pc = "done"
    /\ TopScoreKnown
    /\ call.threshold = DefaultThreshold
    /\ call.scores[1].score = Fraction(18 * 18, 25 * 25)
    /\ call.result.method = "embeddings"

\* C9: classifyEmail never throws: every finished call returned a result
\* with a categoryId (possibly null) and a method of 'embeddings', 'llm' or
\* 'none', whatever the providers answered.
C9_NeverThrows ==
    call.pc = "done" =>
        /\ ~call.threw
        /\ call.result.method \in {"embeddings", "llm", "none"}
        /\ call.result.categoryId \in CatIds \cup {None}

\* the embeddings request failed, the last-resort LLM request failed too,
\* and the call returned
C9_Witness ==
    /\ Returned
    /\ call.caught
    /\ call.embedRequests >= 1
    /\ call.llmInvoked = 1
    /\ call.llmRequests = 1
    /\ call.result = [categoryId |-> None, method |-> "none"]

(***************************************************************************)
(* Properties of POST /api/emails/unsubscribe.                             *)
(***************************************************************************)
OwnerOf(id) == accounts[id[1]].user_id

\* the email is not the caller's: another user's, or there is no session
Foreign(id) == unsub.caller = None \/ OwnerOf(id) # unsub.caller

Stored(id) == \E e \in emails : IdOf(e) = id

Modified(id) == \E c \in labels : c.account = id[1] /\ c.msg = id[2]

Logged(id) == \E j \in DOMAIN attempts : attempts[j].email_id = id

FailedOutcome(id) ==
    /\ \E j \in DOMAIN unsub.results.details : unsub.results.details[j].emailId = id
    /\ \A j \in DOMAIN unsub.results.details :
         unsub.results.details[j].emailId = id => ~unsub.results.details[j].success

\* C10: a requested email that is not the calling user's (another user's, or
\* no user session) never gets a mailbox modification or an attempt row, and
\* the 200 response reports a failed outcome for it.
C10_OwnershipEnforced ==
    \A id \in Range(unsub.emailIds) :
        (Stored(id) /\ Foreign(id)) =>
            /\ ~Modified(id)
            /\ ~Logged(id)
            /\ (unsub.pc = "done" /\ unsub.status = 200) => FailedOutcome(id)


\* new URL(v): whether v parses, its protocol and its hostname
ParseURL(v) ==
    CASE v = "https://example.com/unsub" ->
           [ok |-> TRUE, protocol |-> "https:", hostname |-> "example.com"]
      [] v = "mailto:unsub@example.com" ->
           [ok |-> TRUE, protocol |-> "mailto:", hostname |-> ""]
      [] v = "javascript:alert(1)" ->
           [ok |-> TRUE, protocol |-> "javascript:", hostname |-> ""]
      [] OTHER -> [ok |-> FALSE, protocol |-> "", hostname |-> ""]

SafeLink(v) ==
    /\ ParseURL(v).ok
    /\ ParseURL(v).protocol \in {"http:", "https:"}
    /\ ParseURL(v).hostname # ""

\* the task took the header value as its unsubscribe target
Accepted(t) == t.link # None /\ (t.pc \in {"modify", "update"} \/ t.result.success)

\* C11: every link the unsubscribe engine accepts, acts on or sends to
\* unsubscribe_attempts.link parses as a URL with scheme http or https and a
\* non-empty hostname.
C11_OnlyHttpLinks ==
    /\ \A j \in DOMAIN attempts : attempts[j].link # None => SafeLink(attempts[j].link)
    /\ \A k \in DOMAIN unsub.tasks : Accepted(unsub.tasks[k]) => SafeLink(unsub.tasks[k].link)

\* messages.get found no List-Unsubscribe header for the task's email
HandledWithoutLink(t) ==
    /\ ~t.header
    /\ t.pc \in {"log", "modify", "update"} \/ t.result.message = "marked_spam"

SpamLabel(id) == [account |-> id[1], msg |-> id[2], label |-> "+SPAM"]

\* C12: an email with no List-Unsubscribe header and no unsubscribe link gets
\* no mailbox modification and is not a success: its outcome is no_link.
C12_NoLinkNoAction ==
    \A k \in DOMAIN unsub.tasks :
        HandledWithoutLink(unsub.tasks[k]) =>
            /\ SpamLabel(unsub.tasks[k].emailId) \notin labels
            /\ ~unsub.tasks[k].result.success

Answered == unsub.pc = "done"

DetailsFor(id) ==
    { j \in DOMAIN unsub.results.details : unsub.results.details[j].emailId = id }

SelectFailed == unsub.selectFailed

Occurrences(id) == { i \in DOMAIN unsub.emailIds : unsub.emailIds[i] = id }

\* C14: in every 200 response successful + failed + skipped equals total,
\* total is the number of requested ids, and details has exactly one entry for
\* each requested id (one for each time it was requested), whether or not the
\* id has a row in storage.
C14_ResultAccounting ==
    (Answered /\ unsub.status = 200) =>
        /\ unsub.results.successful + unsub.results.failed + unsub.results.skipped
             = unsub.results.total
        /\ unsub.results.total = Len(unsub.emailIds)
        /\ \A id \in Range(unsub.emailIds) :
             Cardinality(DetailsFor(id)) = Cardinality(Occurrences(id))

\* the task has had an answer from the mailbox and has not returned yet
InProgress(t) == t.gets >= 1 /\ t.pc # "done"

\* C15: the emails of a request are processed one after another: no two of
\* them are in progress at the same time.
C15_OneEmailAtATime ==
    Cardinality({ k \in DOMAIN unsub.tasks : InProgress(unsub.tasks[k]) }) <= 1

RowsFor(id, status) ==
    { j \in DOMAIN attempts : attempts[j].email_id = id /\ attempts[j].status = status }

\* C16: when unsubscribeEmail has returned for an email, a success has left
\* exactly one unsubscribe_attempts row with status 'success' for it, and
\* exhausted retries have left exactly one row with status 'failed'.
C16_TerminalOutcomeRecordedOnce ==
    \A k \in DOMAIN unsub.tasks :
        LET t == unsub.tasks[k]
        IN t.pc = "done" =>
             IF t.result.success
             THEN Cardinality(RowsFor(t.emailId, "success")) = 1
             ELSE Cardinality(RowsFor(t.emailId, "failed")) = 1


(***************************************************************************)
(* Properties of /api/emails/[id].                                         *)
(***************************************************************************)
\* the request arrived when its email already carried a deleted_at
Late(k) == reqs[k].late

Answered404(k) == reqs[k].pc = "done" /\ reqs[k].status = 404

\* the request carries a session cookie and, for a move, a categoryId
PassesPreflight(k) ==
    /\ reqs[k].user # None
    /\ reqs[k].kind = "MOVE" => reqs[k].categoryId # NoId

StepOf(k) == reqs[k].pc \notin {"idle", "done"} /\ reqs'[k] # reqs[k]

\* no row leaves the emails table, and a step of DELETE changes no column
\* other than deleted_at
NonDestructive ==
    /\ {IdOf(e) : e \in emails'} = {IdOf(e) : e \in emails}
    /\ \A k \in Slots :
         StepOf(k) /\ reqs[k].kind = "DELETE" =>
           \A e \in emails : \E f \in emails' : f = [e EXCEPT !.deleted_at = f.deleted_at]

\* a step of a request that arrived after the soft delete writes nothing
LateWritesNothing == \A k \in Slots : StepOf(k) /\ Late(k) => emails' = emails

\* C17 (amended): DELETE only sets deleted_at and removes no row; a GET,
\* DELETE or move request that arrives after deleted_at is set changes no
\* column of the email, is answered with 400, 401 or 404, and with 404
\* whenever it carries a session cookie and (for a move) a categoryId.
C17_SoftDeleteTerminal ==
    /\ [](\A k \in Slots :
            reqs[k].pc = "done" /\ Late(k) =>
              /\ reqs[k].status \in {400, 401, 404}
              /\ PassesPreflight(k) => reqs[k].status = 404)
    /\ [][NonDestructive /\ LateWritesNothing]_vars

\* C17 witness: a move by the owner, with a target category of the owner,
\* arrived after the soft delete and was answered with 404.
C17_Witness ==
    \E k \in Slots :
        /\ Late(k) /\ Answered404(k)
        /\ reqs[k].kind = "MOVE" /\ PassesPreflight(k)
        /\ TargetCategory(reqs[k].categoryId, reqs[k].user) # {}

\* C17: DELETE only sets deleted_at and removes no row; every GET, DELETE or
\* move request that arrives after deleted_at is set is answered with 404 and
\* changes no column of the email.
C17_SoftDeleteAlways404 ==
    /\ [](\A k \in Slots : reqs[k].pc = "done" /\ Late(k) => reqs[k].status = 404)
    /\ [][NonDestructive /\ LateWritesNothing]_vars

(***************************************************************************)
(* Properties of the duplicate guard and of the archive call of            *)
(* POST /api/gmail/sync.                                                   *)
(***************************************************************************)
\* the message ids that were stored before the request began
StoredBefore == {e.gmail_message_id : e \in {x \in emails : x.by = 0}}

AICallsFor(r, m) ==
    \E j \in DOMAIN run[r].out : run[r].out[j].msg = m /\ run[r].out[j].ai > 0

\* C18: for a candidate message whose gmail_message_id is already stored,
\* the sync request fetches no message details, calls no AI provider, inserts
\* no row and issues no archive call, and the stored rows stay as they were.
C18_DuplicateGuardFirst ==
    \A r \in Runs : \A m \in StoredBefore :
        /\ m \notin run[r].fetchCalls
        /\ ~AICallsFor(r, m)
        /\ ~\E e \in emails : e.by = r /\ e.gmail_message_id = m
        /\ m \notin run[r].archiveCalls
        /\ \A e \in emails : e.by = 0 => e = PreRow(e.google_account_id, e.gmail_message_id)

\* the emails row that request r inserted for message m
InsertedBy(r, m) ==
    \E e \in emails : /\ e.by = r
                      /\ e.google_account_id = run[r].acct
                      /\ e.gmail_message_id = m

\* the archive call is issued for messages whose row this request has inserted
ArchivedOnlyWhenInserted ==
    \A r \in Runs :
        /\ run[r].pc = "archive" => InsertedBy(r, Msg(r))
        /\ \A m \in run[r].archiveCalls : InsertedBy(r, m)

EndedWith(r, results) ==
    { run[r].out[j].msg : j \in { i \in DOMAIN run[r].out : run[r].out[i].result \in results } }

AIFailedFor(r) ==
    { run[r].out[j].msg : j \in { i \in DOMAIN run[r].out : run[r].out[i].aiFailed } }

\* C19 (amended): the archive call for a message is issued only after the
\* insert of its row has succeeded; a message whose fetch or insert failed, or
\* whose processing threw, is never archived.  A failed AI classification does
\* not count: the message is stored with the fallback category and archived.
C19_ArchiveAfterImport ==
    /\ ArchivedOnlyWhenInserted
    /\ \A r \in Runs :
         EndedWith(r, {"fetch_failed", "exception", "insert_failed"}) \cap run[r].archiveCalls = {}

\* C19 witness: a request archived one message after inserting it and left
\* another, whose insert failed, in the inbox.
C19_Witness ==
    \E r \in Runs :
        /\ run[r].archiveCalls # {}
        /\ EndedWith(r, {"insert_failed"}) # {}
        /\ \E m \in EndedWith(r, {"insert_failed"}) : m \in mailbox[run[r].acct]

\* C19: the archive call for a message is issued only after the insert of its
\* row has succeeded; a message whose fetch, classification or insert failed
\* is never archived.
C19_NoArchiveAfterAnyFailure ==
    /\ ArchivedOnlyWhenInserted
    /\ \A r \in Runs :
         /\ EndedWith(r, {"fetch_failed", "exception", "insert_failed"})
               \cap run[r].archiveCalls = {}
         /\ AIFailedFor(r) \cap run[r].archiveCalls = {}

StoredFor(a, m) ==
    \E e \in emails : e.google_account_id = a /\ e.gmail_message_id = m

StoredBeforeFor(a, m) ==
    \E e \in emails : e.by = 0 /\ e.google_account_id = a /\ e.gmail_message_id = m

\* C20: a candidate message is skipped as a duplicate exactly when a row with
\* the account being synced and the message's id is stored; a row with the
\* same gmail_message_id under another account does not make it skipped.
C20_GuardKeyIsAccountAndMessage ==
    \A r \in Runs : \A j \in DOMAIN run[r].out :
        LET o == run[r].out[j]
        IN /\ o.result = "skipped" => StoredFor(run[r].acct, o.msg)
           /\ StoredBeforeFor(run[r].acct, o.msg) => o.result = "skipped"

(***************************************************************************)
(* Further properties of lib/ai.                                           *)
(***************************************************************************)
\* C21: in every result of classifyEmail the category id is null exactly
\* when the method is 'none'; a last-resort LLM call that chooses nothing
\* gives {categoryId: null, method: 'none'}.
C21_NullCategoryIffMethodNone ==
    Returned => (call.result.categoryId = None <=> call.result.method = "none")

(***************************************************************************)
(* Further properties of POST /api/emails/unsubscribe.                     *)
(***************************************************************************)
\* the backoff after the k-th failed attempt lasts 2^k seconds
BackoffSchedule(t) ==
    /\ Len(t.waits) < MAX_RETRIES
    /\ \A j \in DOMAIN t.waits : t.waits[j] = Pow2(j)

TasksDone == \A k \in DOMAIN unsub.tasks : unsub.tasks[k].pc = "done"

Outcomes(r, results) ==
    Cardinality({ j \in DOMAIN run[r].out : run[r].out[j].result \in results })

\* the error strings an iteration pushes: none when the message is skipped
\* or imported, one otherwise
OneOutcomeEach(r) ==
    \A j \in DOMAIN run[r].out :
        run[r].out[j].errs = IF run[r].out[j].result \in {"skipped", "imported"} THEN 0 ELSE 1

LoopDone(r) == run[r].pc = "finish" \/ (run[r].pc = "done" /\ run[r].why = "completed")

\* C23: every listed message ends as skipped, as counted in imported, or
\* with exactly one error string, so imported + skipped + errors is the
\* number of messages listed, and imported never exceeds the page size.
C23_SyncOutcomeAccounting ==
    \A r \in Runs :
        /\ OneOutcomeEach(r)
        /\ run[r].imported = Outcomes(r, {"imported"})
        /\ run[r].imported + Outcomes(r, {"skipped"}) + Len(run[r].errors) = Len(run[r].out)
        /\ LoopDone(r) => Len(run[r].out) = Len(run[r].page)
        /\ Len(run[r].page) <= PAGE_SIZE
        /\ run[r].imported <= PAGE_SIZE

\* C23 witness: a request over an inbox of more than a page has listed a
\* full page and ended with a skipped, an imported and a failed message.
C23_Witness ==
    \E r \in Runs :
        /\ LoopDone(r) /\ run[r].pc = "done"
        /\ Len(run[r].page) = PAGE_SIZE
        /\ Cardinality(mailbox[run[r].acct]) + run[r].imported > PAGE_SIZE
        /\ Outcomes(r, {"skipped"}) > 0
        /\ run[r].imported > 0
        /\ Len(run[r].errors) > 0

\* C24: after unsubscribeEmail has returned for an email, every failed
\* attempt has left one row with status 'pending' for it, and exhausted
\* retries have added one row with status 'failed'.
C24_FailedAttemptsStayPending ==
    \A k \in DOMAIN unsub.tasks :
        LET t == unsub.tasks[k]
        IN t.pc = "done" =>
             /\ Cardinality(RowsFor(t.emailId, "pending")) = t.retries
             /\ ~t.result.success => Cardinality(RowsFor(t.emailId, "failed")) = 1

ArchiveFailed(o) == o.archive \in {"not_ok", "throws"}

\* C25: a message whose archive call threw or was answered with an error
\* after its row was inserted is counted in imported, adds no error string
\* and keeps its row, and the messages after it are processed.
C25_ArchiveFailureKeepsImport ==
    \A r \in Runs : \A j \in DOMAIN run[r].out :
        LET o == run[r].out[j]
        IN ArchiveFailed(o) =>
             /\ o.result = "imported"
             /\ o.errs = 0
             /\ InsertedBy(r, o.msg)
             /\ run[r].imported = Outcomes(r, {"imported"})
             /\ LoopDone(r) => Len(run[r].out) = Len(run[r].page)
             /\ run[r].pc = "done" => run[r].status = 200

\* C25 witness: the archive call of a message threw and the request went on
\* to the next message and answered.
C25_Witness ==
    \E r \in Runs : \E j \in DOMAIN run[r].out :
        /\ run[r].out[j].archive = "throws"
        /\ j < Len(run[r].out)
        /\ run[r].pc = "done"
        /\ run[r].out[j].msg \in mailbox[run[r].acct]

\* an Inbox category of the user, in any letter case
InboxExists(user) ==
    \E i \in DOMAIN categories :
        categories[i].user_id = user /\ Lower(categories[i].name) = "inbox"

Persists(r) == \E e \in emails' \ emails : e.by = r

\* C26: whenever a sync request inserts an emails row, an Inbox category of
\* its user exists, and no category named 'inbox' in any letter case is in
\* the candidate list passed to the classifier.
C26_InboxReserved ==
    /\ [](\A r \in Runs : \A i \in DOMAIN run[r].classCats :
            Lower(run[r].classCats[i].name) # "inbox")
    /\ [][\A r \in Runs : Persists(r) => InboxExists(run[r].user)]_vars

\* the step is one turn of the loop over the categories, for category c
EmbedsCategory(c) ==
    /\ call.pc = "embed_category"
    /\ call' # call
    /\ call.cats[call.k] = c

\* an entry for the category exists and is less than 24 hours old
FreshEntry(c) == cache[c].present /\ Now - cache[c].ts < DayMs

\* the score is computed from the cached vector, without a request
ServedFromCache(c) ==
    /\ cache' = cache
    /\ call'.embedRequests = call.embedRequests
    /\ call'.pc = "embed_category" =>
         call'.scores = Append(call.scores,
                               [id |-> c, score |-> CosineSimilarity(call.emailEmb, cache[c].embedding)])

\* getEmbedding is called; its vector is stored with the current time when
\* the call succeeds, and nothing is stored when it throws
AskedProvider(c) ==
    /\ aiKey # None => call'.embedRequests = call.embedRequests + 1
    /\ \A d \in CatIds \ {c} : cache'[d] = cache[d]
    /\ IF call'.pc = "last_resort"
       THEN cache'[c] = cache[c]
       ELSE cache'[c].present /\ cache'[c].ts = Now /\ cache'[c].embedding \in Vectors

\* C27: getCategoryEmbedding serves the cached vector without calling the
\* provider exactly when an entry for the category id is less than 24 hours
\* old; otherwise it calls the provider and stores the vector with the
\* current time only when the call succeeds.
C27_CacheHitIffFresh ==
    [][\A c \in CatIds :
         EmbedsCategory(c) => IF FreshEntry(c) THEN ServedFromCache(c) ELSE AskedProvider(c)]_vars

\* C27 witness: with a provider configured, a call has scored its first
\* category from the cache, its only request being the one for the email.
C27_Witness ==
    /\ aiKey # None
    /\ call.pc = "embed_category" /\ call.k = 2
    /\ call.embedRequests = 1
    /\ cache[call.cats[1]].present
(***************************************************************************)
(* Properties of chooseCategoryWithLLM and summarizeEmail.                 *)
(***************************************************************************)
\* the call of chooseCategoryWithLLM got a reply of the model to parse
ChoiceParsed ==
    /\ llm.pc = "done"
    /\ llm.cats # <<>>
    /\ aiKey # None
    /\ llm.answer.kind = "reply"

\* the digits of n: the leading integer of the first line of the reply,
\* or the first integer anywhere when that line has none; <<>> without one
ReplyDigits(text) ==
    LET leading == LeadingDigits(Trim(FirstLine(Trim(text))))
    IN IF leading # <<>> THEN leading ELSE AnyDigits(text)

\* C28: a reply of the model whose number n (the leading integer of its
\* first line, else its first integer) has 1 <= n <= the number of
\* categories gives categories[n-1].id; n = 0, n above the number of
\* categories, or no integer at all gives categoryId null; none throws.
C28_ReplyNumberPicksCategory ==
    ChoiceParsed =>
        LET digits == ReplyDigits(llm.answer.text)
            n == ParseInt(digits)
        IN /\ ~llm.out.threw
           /\ (digits # <<>> /\ 1 <= n /\ n <= Len(llm.cats)) => llm.out.categoryId = llm.cats[n]
           /\ (digits = <<>> \/ n = 0 \/ n > Len(llm.cats)) => llm.out.categoryId = None

\* a reply whose first line has no leading integer, and whose first integer
\* anywhere picked the second of two categories
C28_Witness ==
    /\ ChoiceParsed
    /\ LeadingDigits(Trim(FirstLine(Trim(llm.answer.text)))) = <<>>
    /\ Len(llm.cats) = 2
    /\ llm.out.categoryId = llm.cats[2]

\* the call of summarizeEmail got a reply "Summary: S", followed or not by
\* a line "Actions: A", and parsed it
SummaryParsed ==
    /\ summ.pc = "done"
    /\ aiKey # None
    /\ summ.answer.kind = "reply"

\* C29: for a reply "Summary: S", followed or not by a line "Actions: A",
\* the summary returned is the whole trimmed S, without the label, and
\* the actions are the non-empty bullet-stripped lines of A, none when the
\* section is absent or empty.
C29_SummaryIsWholeSection ==
    SummaryParsed =>
        /\ ~summ.out.threw
        /\ summ.out.summary = TrimText(summ.answer.parts.S)
        /\ summ.out.actions = ActionLines(TrimText(summ.answer.parts.A))

(***************************************************************************)
(* Properties of the emails of a deleted category.                         *)
(***************************************************************************)
\* the request arrived when its email had lost its category
Orphan(k) == reqs[k].orphan

\* the email of request k has no category
EmailOrphan(k) == \E e \in emails : IdOf(e) = reqs[k].id /\ e.category_id = NoId

\* the lookup of an email that has no category answers 404 and writes nothing
OrphanLookup404 ==
    \A k \in Slots :
        reqs[k].pc = "select" /\ StepOf(k) /\ EmailOrphan(k) =>
            /\ reqs'[k].pc = "done" /\ reqs'[k].status = 404
            /\ emails' = emails

\* an email gets a category again only by the write of a move, which a
\* request reaches through a lookup that found the email in a category
OrphanMovedOnlyByPendingMove ==
    \A e \in emails, f \in emails' :
        IdOf(e) = IdOf(f) /\ e.category_id = NoId /\ f.category_id # NoId =>
            \E k \in Slots : /\ reqs[k].pc = "update" /\ StepOf(k)
                             /\ reqs[k].kind = "MOVE" /\ reqs[k].id = IdOf(e)

\* C30 (amended): once DELETE /api/categories has removed an email's
\* category (category_id NULL), every GET, DELETE or move request whose
\* lookup of the email runs while it has no category is answered with 404
\* and writes nothing; a request without a session cookie, or a move without
\* a categoryId, is answered with 401 or 400 before any lookup; the email
\* gets a category again only by the write of a move whose lookup had found
\* it in a category.
C30_OrphanUnreachable ==
    /\ [](\A k \in Slots :
            reqs[k].pc = "done" /\ ~PassesPreflight(k) => reqs[k].status \in {400, 401})
    /\ [][OrphanLookup404 /\ OrphanMovedOnlyByPendingMove]_vars

\* C30 witness: the owner's move into a category that still exists arrived
\* after DELETE /api/categories removed the email's category, and was
\* answered with 404; the email has no category.
C30_Witness ==
    \E k \in Slots :
        /\ Orphan(k) /\ Answered404(k)
        /\ reqs[k].kind = "MOVE" /\ PassesPreflight(k)
        /\ TargetCategory(reqs[k].categoryId, reqs[k].user) # {}
        /\ catReq.status = 200
        /\ EmailOrphan(k)

\* the email of a request that arrived when it had no category keeps having
\* none, and a step of such a request writes nothing
OrphanForGood ==
    \A k \in Slots :
        Orphan(k) => /\ StepOf(k) => emails' = emails
                     /\ \A f \in emails' : IdOf(f) = reqs[k].id => f.category_id = NoId

\* C30: every GET, DELETE or move request that arrives for an email whose
\* category was deleted is answered with 404 and changes no column of it,
\* and no request moves the email back into a category.
C30_OrphanAlways404 ==
    /\ [](\A k \in Slots : reqs[k].pc = "done" /\ Orphan(k) => reqs[k].status = 404)
    /\ [][OrphanForGood]_vars
=============================================================================
